---- MODULE Spec2Model ----
(***************************************************************************)
(* A model of cargo-gpu's lockfile guard (lockfile.rs), of the build       *)
(* command that holds it (build.rs) and of the backend installation        *)
(* (install.rs).                                                           *)
(*                                                                         *)
(* A Cargo.lock is modelled as its text: the sequence of its lines and     *)
(* whether the last line is terminated by "\n".  Lines are drawn from a    *)
(* small alphabet that separates the cases the code distinguishes:         *)
(* a line that IS the marker, a line that only CONTAINS it, and others.    *)
(***************************************************************************)
EXTENDS Integers, Sequences, FiniteSets, TLC

VARIABLES
    \* ---- the lockfile guard inside Build::run ----
    pc,                 \* position of Build::run: "start", "new_workspace_check",
                        \* "new_shader_check", "guarded", "drop", "done" (returned
                        \* after the guard was dropped), "failed" (returned an error
                        \* before the guard existed), "exited" (process::exit)
    lock,               \* the two Cargo.lock files: "shader" and "workspace"
    orig,               \* history: the files as they were before Build::run
    workspace_rust_version,   \* query_rustc_version(None)
    shader_rust_version,      \* query_rustc_version(Some(channel))
    force_overwrite_lockfiles_v4_to_v3,   \* Install's flag
    cargo_toml,         \* shader crate's Cargo.toml: "unreadable", "standalone", "member"
    ancestors,          \* number of ancestor directories of shader_crate_path
    lock_level,         \* nearest ancestor holding a Cargo.lock (0: none)
    cargo_lock_files_with_changed_manifest_versions,  \* the guard's list
    rewritten,          \* history: files whose text construction changed
    opened_for_write,   \* history: how often each file was opened with write+truncate
    result,             \* what Build::run returned: "none", "ok", "err"
    error,              \* context of the error that ended construction
    exit_code,          \* -1 while the process lives, else its exit status
    build_started,      \* history: the guarded build step was reached
    watch,              \* self.build.watch
    \* ---- Install::run ----
    ipc,                \* position of Install::run ("idle" between invocations)
    source,             \* kind of the SpirvSource: "CratesIO", "Git", "Path"
    rebuild_codegen,    \* Install's flag, of the current invocation
    clear_target,       \* Install's flag
    has_target_specs_package,  \* metadata holds rustc_codegen_spirv-target-specs
    target_specs_src_is_dir,   \* that package has a target-specs directory
    builds_dylib,       \* building this source yields target/release/<dylib>
    dest_dylib,         \* a file exists at <install_dir>/<dylib> (non-path sources)
    target_dylib,       \* a file exists at <install_dir>/target/release/<dylib>
    target_dir,         \* <install_dir>/target exists
    placeholder,        \* the dummy project's Cargo.toml and src/main.rs exist
    install_lock,       \* <install_dir>/Cargo.lock exists
    spec_dirs,          \* the target-spec directories cargo-gpu has written
    skip_rebuild,       \* local of Install::run
    toolchain_channel,  \* local of Install::run
    target_spec_dir,    \* local of Install::run
    builds_this_run,    \* compiler build subprocesses of the current invocation
    build_status,       \* output.status of the compiler build: "none", "success", "bad"
    steps,              \* history: the steps the current invocation has completed
    dest_partial,       \* the file at <install_dir>/<dylib> is incompletely written
    target_partial,     \* the file at <install_dir>/target/release/<dylib> is
    runs,               \* history: one record per finished invocation
    \* ---- a second cargo-gpu process on the same cache ----
    current,            \* the process whose locals the variables above hold: 1 or 2
    other,              \* the locals of the process that is not running
    \* ---- ensure_toolchain_and_components_exist ----
    tpc,                \* position: "idle", "toolchain_list", "consent", "toolchain_add",
                        \* "component_list", "component_add", "exited"
    rustup_toolchain,   \* rustup lists a toolchain whose name starts with the channel
    rustup_components,  \* required components rustup lists as (installed)
    skip_toolchain_install_consent,   \* the function's flag
    consent_for,        \* the installation the running consent request is for
    raw_mode,           \* the terminal is in raw mode
    prompts,            \* history: the prompts issued, with the event that answered
    subprocesses,       \* history: the rustup installation subprocesses started
    tresult,            \* what the function returned: "none", "ok", "err", "exit0"
    \* ---- SpirvSource::new ----
    maybe_rust_gpu_source,   \* self.spirv_builder_source: None or Some(text)
    maybe_rust_gpu_version,  \* self.spirv_builder_version: None or Some(text)
    metadata,           \* cargo metadata of the shader crate: None (the query fails)
                        \* or Some(sequence of packages)
    root_is_dir,        \* rust_gpu_repo_root.is_dir()
    resolution,         \* what SpirvSource::new returned, and whether it inspected
    \* ---- cache_dir and SpirvSource::install_dir ----
    home,               \* the user's cache directory (BaseDirs), None without a home
    cfg_test,           \* cfg!(test): the build is a test build
    thread,             \* std::thread::current().id() of the running thread
    calls,              \* history: the calls of install_dir and what they returned
    artifacts,          \* the install directories that hold the backend's library
    \* ---- target-spec resolution ----
    companion_entries,  \* the entries of the companion package's target-specs
                        \* directory: name -> "absent", "file", "dir"
    spec_files,         \* the directories resolution may name: path -> None, or
                        \* Some(name -> "absent", or the origin of the file's content)
    resolutions,        \* history: one record per call of a resolution function
    \* ---- the guard's release, and a second guarded build ----
    logged,             \* history: the log::error! lines of Drop
    gcurrent,           \* the build whose guard the lock variables hold: 1 or 2
    gother,             \* the guard variables of the build that is not running
    \* ---- the backend's build script ----
    build_rs,           \* build.rs of rustc_codegen_spirv: None (unreadable) or
                        \* Some(its lines)
    \* ---- get_workspace_root on a path as it was given ----
    shader_crate_path,  \* the path given: absolute or not, and its components
    current_dir,        \* the working directory of the process, as a depth
    cargo_locks,        \* the depths of the directories that hold a Cargo.lock
    walked              \* None, or Some(what get_workspace_root returned)

lockVars == <<pc, lock, orig, workspace_rust_version, shader_rust_version,
              force_overwrite_lockfiles_v4_to_v3, cargo_toml, ancestors, lock_level,
              cargo_lock_files_with_changed_manifest_versions, rewritten,
              opened_for_write, result, error, exit_code, build_started,
              watch>>

installVars == <<ipc, source, rebuild_codegen, clear_target, has_target_specs_package,
                 target_specs_src_is_dir, builds_dylib, dest_dylib, target_dylib, target_dir,
                 placeholder, install_lock, spec_dirs, skip_rebuild, toolchain_channel,
                 target_spec_dir, builds_this_run, build_status, steps,
                 dest_partial, target_partial, runs>>

schedVars == <<current, other>>

toolVars == <<tpc, rustup_toolchain, rustup_components, skip_toolchain_install_consent,
              consent_for, raw_mode, prompts, subprocesses, tresult>>

srcVars == <<maybe_rust_gpu_source, maybe_rust_gpu_version, metadata, root_is_dir,
             resolution>>

dirVars == <<home, cfg_test, thread, calls, artifacts>>

specVars == <<companion_entries, spec_files, resolutions>>

guardVars == <<logged, gcurrent, gother>>

chanVars == <<build_rs>>

walkVars == <<shader_crate_path, current_dir, cargo_locks, walked>>

vars == <<lockVars, installVars, schedVars, toolVars, srcVars, dirVars, specVars, guardVars,
          chanVars, walkVars>>

(***************************************************************************)
(* Bounds                                                                  *)
(***************************************************************************)
\* longest Cargo.lock, in lines
MaxLines == 4

\* successive invocations of Install::run on one cache
MaxRuns == 2

(***************************************************************************)
(* Program constants                                                       *)
(***************************************************************************)
\* const RUST_VERSION_THAT_USES_V4_CARGO_LOCKS: Version = Version::new(1, 83, 0)
RUST_VERSION_THAT_USES_V4_CARGO_LOCKS == <<1, 83, 0>>

\* `for _ in 0..15` of get_workspace_root
WalkLimit == 15

(***************************************************************************)
(* Text of a Cargo.lock                                                    *)
(***************************************************************************)
LineV4 == "version = 4"
LineV3 == "version = 3"
\* contains "version = 3" without being that line
LineV3x == "version = 30"
\* contains both markers
LineV43 == "version = 4 # was version = 3"
LineOther == "[[package]]"

ThirdLines == {LineV4, LineV3, LineV3x, LineV43, LineOther}
TailLines == {LineV4, LineV3, LineOther}
Header == <<"# This file is automatically @generated by Cargo.",
            "# It is not intended for manual editing.">>

Files == {"shader", "workspace"}

Absent == [exists |-> FALSE, lines |-> <<>>, nl |-> FALSE]

File(ls, n) == [exists |-> TRUE, lines |-> ls, nl |-> n]

\* sequences over S of length lo..hi
SeqsBetween(S, lo, hi) == UNION {[1..n -> S] : n \in lo..hi}

\* files of three lines: only the marker line varies
PlainFiles ==
    {File(<<>>, FALSE), File(Header, TRUE)}
    \cup {File(Header \o <<t>>, TRUE) : t \in ThirdLines}

\* files of up to MaxLines lines, with or without a final newline
RichFiles ==
    PlainFiles
    \cup {File(Header \o <<t>> \o tail, n) :
            t \in ThirdLines, tail \in SeqsBetween(TailLines, 0, MaxLines - 3),
            n \in BOOLEAN}

\* str::contains on the line alphabet
Contains(line, marker) ==
    \/ line = marker
    \/ marker = LineV4 /\ line = LineV43
    \/ marker = LineV3 /\ line \in {LineV3x, LineV43}

\* format!("version = {v}")
VersionLine(v) == IF v = "4" THEN LineV4 ELSE LineV3

(***************************************************************************)
(* str::replace("\nversion = F\n", "\nversion = T\n") on the text: a line  *)
(* matches when it is exactly the marker, a "\n" precedes it (it is not    *)
(* the first line), a "\n" follows it, and the "\n" before it was not      *)
(* consumed by a match of the previous line (matches do not overlap).      *)
(***************************************************************************)
RECURSIVE ReplaceFrom(_, _, _, _, _, _)
ReplaceFrom(ls, n, from, to, i, prevMatched) ==
    IF i > Len(ls) THEN <<>>
    ELSE LET m == /\ i >= 2
                  /\ ~prevMatched
                  /\ ls[i] = from
                  /\ (i < Len(ls) \/ n)
         IN  <<IF m THEN to ELSE ls[i]>> \o ReplaceFrom(ls, n, from, to, i + 1, m)

StrReplace(ls, n, from, to) == ReplaceFrom(ls, n, from, to, 1, FALSE)

(***************************************************************************)
(* Outcomes of the fallible helpers: status "ok", "err" (anyhow error,     *)
(* with its context) or "exit" (std::process::exit(1)).                    *)
(***************************************************************************)
Outcome(s, e, f, o) == [status |-> s, error |-> e, file |-> f, opened |-> o]

\* fn replace_cargo_lock_manifest_version
replace_cargo_lock_manifest_version(f, from_version, to_version) ==
    IF ~f.exists
    THEN Outcome("err", "reading offending Cargo.lock", f, FALSE)
    ELSE Outcome("ok", "",
                 [f EXCEPT !.lines = StrReplace(f.lines, f.nl,
                                                VersionLine(from_version),
                                                VersionLine(to_version))],
                 TRUE)

\* mutant: the conflict is overwritten without asking for the flag
handle_v3v4_conflict_never_exits(f, is_force) ==
    replace_cargo_lock_manifest_version(f, "4", "3")

\* fn handle_v3v4_conflict
handle_v3v4_conflict(f, is_force) ==
    IF ~is_force
    THEN Outcome("exit", "", f, FALSE)
    ELSE replace_cargo_lock_manifest_version(f, "4", "3")

\* mutant: a marker line that is neither version is let through
handle_conflicting_cargo_lock_v4_lenient(f, is_force) ==
    IF ~f.exists THEN Outcome("err", "reading shader cargo lock", f, FALSE)
    ELSE IF Len(f.lines) < 3 THEN Outcome("err", "no third line", f, FALSE)
    ELSE IF Contains(f.lines[3], LineV4)
         THEN IF ~is_force THEN Outcome("exit", "", f, FALSE)
              ELSE replace_cargo_lock_manifest_version(f, "4", "3")
    ELSE Outcome("ok", "", f, FALSE)

\* fn handle_conflicting_cargo_lock_v4
handle_conflicting_cargo_lock_v4(f, is_force) ==
    IF ~f.exists THEN Outcome("err", "reading shader cargo lock", f, FALSE)
    ELSE IF Len(f.lines) < 3 THEN Outcome("err", "no third line", f, FALSE)
    ELSE IF Contains(f.lines[3], LineV4) THEN handle_v3v4_conflict(f, is_force)
    ELSE IF Contains(f.lines[3], LineV3) THEN Outcome("ok", "", f, FALSE)
    ELSE Outcome("err", "Unrecognized Cargo.lock manifest version", f, FALSE)

\* mutant: `>` for `>=`
VersionGT(a, b) ==
    \/ a[1] > b[1]
    \/ a[1] = b[1] /\ a[2] > b[2]
    \/ a[1] = b[1] /\ a[2] = b[2] /\ a[3] > b[3]

\* semver::Version ordering on (major, minor, patch)
VersionGE(a, b) ==
    \/ a[1] > b[1]
    \/ a[1] = b[1] /\ a[2] > b[2]
    \/ a[1] = b[1] /\ a[2] = b[2] /\ a[3] >= b[3]

\* fn get_workspace_root: "err", "none" or "found"
get_workspace_root ==
    IF cargo_toml = "unreadable" THEN "err"
    ELSE IF cargo_toml # "member" THEN "none"
    ELSE IF lock_level >= 1 /\ lock_level <= WalkLimit /\ lock_level <= ancestors
         THEN "found"
    ELSE "none"

(***************************************************************************)
(* The two version checks of LockfileMismatchHandler::new.  Each returns   *)
(* the files as it leaves them, the files it opened for writing, and the   *)
(* path it asks `new` to push on the guard's list (`push`, empty for None).*)
(***************************************************************************)
Check(s, e, files, o, p) ==
    [status |-> s, error |-> e, lock |-> files, opened |-> o, push |-> p]

OpenedBy(o, name) == IF o.opened THEN {name} ELSE {}

\* fn ensure_workspace_rust_version_doesnt_conflict_with_shader
ensure_workspace_rust_version_doesnt_conflict_with_shader(files, version, is_force) ==
    IF VersionGE(version, RUST_VERSION_THAT_USES_V4_CARGO_LOCKS)
    THEN Check("ok", "", files, {}, <<>>)
    ELSE LET o == handle_conflicting_cargo_lock_v4(files["shader"], is_force)
             after == [files EXCEPT !["shader"] = o.file]
         IN  IF o.status # "ok"
             THEN Check(o.status, o.error, after, OpenedBy(o, "shader"), <<>>)
             ELSE Check("ok", "", after, OpenedBy(o, "shader"),
                        IF is_force THEN <<"shader">> ELSE <<>>)

\* fn ensure_shader_rust_version_doesnt_conflict_with_any_cargo_locks
ensure_shader_rust_version_doesnt_conflict_with_any_cargo_locks(files, version, is_force, root) ==
    IF VersionGE(version, RUST_VERSION_THAT_USES_V4_CARGO_LOCKS)
    THEN Check("ok", "", files, {}, <<>>)
    ELSE LET o1 == IF files["shader"].exists
                   THEN handle_conflicting_cargo_lock_v4(files["shader"], is_force)
                   ELSE Outcome("ok", "", files["shader"], FALSE)
             after1 == [files EXCEPT !["shader"] = o1.file]
             opened1 == OpenedBy(o1, "shader")
         IN  IF o1.status # "ok"
             THEN Check(o1.status, o1.error, after1, opened1, <<>>)
             ELSE IF root = "err"
             THEN Check("err", "reading workspace root", after1, opened1, <<>>)
             ELSE IF root = "found"
             THEN LET o2 == handle_conflicting_cargo_lock_v4(files["workspace"], is_force)
                      after2 == [after1 EXCEPT !["workspace"] = o2.file]
                      opened2 == opened1 \cup OpenedBy(o2, "workspace")
                  IN  IF o2.status # "ok"
                      THEN Check(o2.status, o2.error, after2, opened2, <<>>)
                      ELSE Check("ok", "", after2, opened2, <<"workspace">>)
             ELSE Check("ok", "", after1, opened1, <<>>)

(***************************************************************************)
(* fn revert_cargo_lock_manifest_versions: the recorded files in order,    *)
(* stopping at the first error (`?` inside the loop).                      *)
(***************************************************************************)
RECURSIVE RevertFrom(_, _, _, _)
RevertFrom(files, list, i, opened) ==
    IF i > Len(list) THEN [status |-> "ok", lock |-> files, opened |-> opened]
    ELSE LET o == replace_cargo_lock_manifest_version(files[list[i]], "3", "4")
         IN  IF o.status # "ok"
             THEN [status |-> "err", lock |-> files, opened |-> opened]
             ELSE RevertFrom([files EXCEPT ![list[i]] = o.file], list, i + 1,
                             opened \cup {list[i]})

revert_cargo_lock_manifest_versions(files, list) == RevertFrom(files, list, 1, {})

\* the files whose text differs between two file systems
Changed(before, after) == {f \in Files : before[f] # after[f]}

(***************************************************************************)
(* Build::run, as far as the guard is concerned                            *)
(***************************************************************************)
RustVersions == {<<1, 82, 1>>, <<1, 83, 0>>, <<2, 0, 0>>}

\* the lockfiles and directory layouts Build::run is started in
Layouts ==
    LET some(S) == S \cup {Absent}
        L(s, w, a, l) == [shader |-> s, workspace |-> w, ancestors |-> a, lock_level |-> l]
    IN  {L(s, Absent, 1, 0) : s \in some(RichFiles)}
        \cup {L(s, w, 1, 1) : s \in some(PlainFiles), w \in RichFiles}
        \cup {L(s, w, 1, 1) : s \in some(RichFiles), w \in PlainFiles}
        \cup {L(s, w, WalkLimit + 1, l) :
                s \in some(PlainFiles), w \in PlainFiles, l \in {WalkLimit, WalkLimit + 1}}

(***************************************************************************)
(* install_toolchain.rs                                                    *)
(***************************************************************************)
required_components == {"rust-src", "rustc-dev", "llvm-tools"}

\* what crossterm::event::read() may return
Events == {"y_press", "y_release", "Y_press", "n_press", "enter_press", "enter_release",
           "resize"}

\* Event::Key(KeyEvent { code: KeyCode::Enter, kind: KeyEventKind::Release, .. })
IsEnterRelease(e) == e = "enter_release"

\* mutant: every key event is taken for consent
IsAnyKey(e) == e # "resize"

\* Event::Key(KeyEvent { code: KeyCode::Char('y'), .. })
IsCharY(e) == e \in {"y_press", "y_release"}

\* Option
None == [some |-> FALSE]
Some(x) == [some |-> TRUE, val |-> x]

\* SpirvSource::new has not been called
SrcIdle ==
    /\ maybe_rust_gpu_source = None
    /\ maybe_rust_gpu_version = None
    /\ metadata = None
    /\ root_is_dir = TRUE
    /\ resolution = None

\* the names of the files in the bundle legacy_target_specs::TARGET_SPECS, and
\* the names a companion package may hold
LegacyNames == {"v1.json", "legacy.json"}
CompanionNames == {"v1.json", "companion.json", "sub"}
SpecNames == LegacyNames \cup CompanionNames

\* the build script is not modelled: it cannot be read
ChanIdle == build_rs = None

\* get_workspace_root has not been called on a path
WalkIdle ==
    /\ shader_crate_path = [abs |-> TRUE, comps |-> <<>>]
    /\ current_dir = 0
    /\ cargo_locks = {}
    /\ walked = None

\* the guard variables of a build that has not started
GuardLocalsIdle ==
    [pc |-> "start", cargo_lock_files_with_changed_manifest_versions |-> <<>>,
     rewritten |-> {}, result |-> "none", error |-> "", exit_code |-> -1,
     build_started |-> FALSE]

\* nothing was logged; one build only
GuardIdle ==
    /\ logged = <<>>
    /\ gcurrent = 1
    /\ gother = GuardLocalsIdle

\* target-spec resolution has not been called; no directory is tracked
SpecIdle ==
    /\ companion_entries = [n \in CompanionNames |-> "absent"]
    /\ spec_files = <<>>
    /\ resolutions = <<>>

\* install_dir has not been called; a build that is no test build
DirIdle ==
    /\ home = Some(<<"home", "user", ".cache">>)
    /\ cfg_test = FALSE
    /\ thread = 1
    /\ calls = <<>>
    /\ artifacts = {}

\* ensure_toolchain_and_components_exist has not been called
ToolIdle ==
    /\ tpc = "idle"
    /\ rustup_toolchain = TRUE
    /\ rustup_components = required_components
    /\ skip_toolchain_install_consent = FALSE
    /\ consent_for = "none"
    /\ raw_mode = FALSE
    /\ prompts = <<>>
    /\ subprocesses = <<>>
    /\ tresult = "none"

\* the locals of an Install::run that has not begun
LocalsIdle ==
    [ipc |-> "idle", rebuild_codegen |-> FALSE, skip_rebuild |-> FALSE,
     toolchain_channel |-> "", target_spec_dir |-> <<>>, builds_this_run |-> 0,
     build_status |-> "none", steps |-> <<>>]

\* Install::run at rest, on a cache that holds nothing
InstallIdle ==
    /\ ipc = "idle"
    /\ source = "Git"
    /\ rebuild_codegen = FALSE
    /\ clear_target = TRUE
    /\ has_target_specs_package = FALSE
    /\ target_specs_src_is_dir = FALSE
    /\ builds_dylib = TRUE
    /\ dest_dylib = FALSE
    /\ target_dylib = FALSE
    /\ target_dir = FALSE
    /\ placeholder = FALSE
    /\ install_lock = FALSE
    /\ spec_dirs = {}
    /\ skip_rebuild = FALSE
    /\ toolchain_channel = ""
    /\ target_spec_dir = <<>>
    /\ builds_this_run = 0
    /\ build_status = "none"
    /\ steps = <<>>
    /\ dest_partial = FALSE
    /\ target_partial = FALSE
    /\ runs = <<>>
    /\ current = 1
    /\ other = LocalsIdle

Init ==
    /\ InstallIdle
    /\ ToolIdle
    /\ SrcIdle
    /\ DirIdle
    /\ SpecIdle
    /\ GuardIdle
    /\ WalkIdle
    /\ ChanIdle
    /\ pc = "start"
    /\ \E layout \in Layouts :
        /\ lock = [f \in Files |-> layout[f]]
        /\ ancestors = layout.ancestors
        /\ lock_level = layout.lock_level
    /\ orig = lock
    /\ workspace_rust_version \in RustVersions
    /\ shader_rust_version \in RustVersions
    /\ force_overwrite_lockfiles_v4_to_v3 \in BOOLEAN
    /\ cargo_toml \in {"unreadable", "standalone", "member"}
    /\ cargo_lock_files_with_changed_manifest_versions = <<>>
    /\ rewritten = {}
    /\ opened_for_write = [f \in Files |-> 0]
    /\ result = "none"
    /\ error = ""
    /\ exit_code = -1
    /\ build_started = FALSE
    /\ watch = FALSE

inputs == <<orig, workspace_rust_version, shader_rust_version,
            force_overwrite_lockfiles_v4_to_v3, cargo_toml, ancestors, lock_level,
            watch>>

\* one more write+truncate open for each file of `opened`
CountOpened(count, opened) ==
    [f \in Files |-> IF f \in opened THEN count[f] + 1 ELSE count[f]]

\* the outcome of one of the two checks of `new`, applied to the state
ApplyCheck(c, next_pc) ==
    /\ lock' = c.lock
    /\ rewritten' = rewritten \cup Changed(lock, c.lock)
    /\ opened_for_write' = CountOpened(opened_for_write, c.opened)
    /\ cargo_lock_files_with_changed_manifest_versions' =
          IF c.status = "ok"
          THEN cargo_lock_files_with_changed_manifest_versions \o c.push
          ELSE cargo_lock_files_with_changed_manifest_versions
    /\ pc' = CASE c.status = "ok" -> next_pc
               [] c.status = "err" -> "failed"
               [] c.status = "exit" -> "exited"
    /\ result' = IF c.status = "err" THEN "err" ELSE result
    /\ error' = c.error
    /\ exit_code' = IF c.status = "exit" THEN 1 ELSE exit_code

\* let installed_backend = self.install.run()?;
BuildInstall ==
    /\ pc = "start"
    /\ \E ok \in BOOLEAN :
        /\ pc' = IF ok THEN "new_workspace_check" ELSE "failed"
        /\ result' = IF ok THEN result ELSE "err"
    /\ UNCHANGED <<lock, inputs, cargo_lock_files_with_changed_manifest_versions,
                   rewritten, opened_for_write, error, exit_code, build_started>>
    /\ UNCHANGED <<installVars, schedVars, toolVars, srcVars, dirVars, specVars, guardVars,
                   chanVars, walkVars>>

\* LockfileMismatchHandler::new, first check
NewWorkspaceCheck ==
    /\ pc = "new_workspace_check"
    /\ ApplyCheck(ensure_workspace_rust_version_doesnt_conflict_with_shader(
                      lock, workspace_rust_version, force_overwrite_lockfiles_v4_to_v3),
                  "new_shader_check")
    /\ UNCHANGED <<inputs, build_started>>
    /\ UNCHANGED <<installVars, schedVars, toolVars, srcVars, dirVars, specVars, guardVars,
                   chanVars, walkVars>>

\* LockfileMismatchHandler::new, second check; on success the guard exists
NewShaderCheck ==
    /\ pc = "new_shader_check"
    /\ ApplyCheck(ensure_shader_rust_version_doesnt_conflict_with_any_cargo_locks(
                      lock, shader_rust_version, force_overwrite_lockfiles_v4_to_v3,
                      get_workspace_root),
                  "guarded")
    /\ UNCHANGED <<inputs, build_started>>
    /\ UNCHANGED <<installVars, schedVars, toolVars, srcVars, dirVars, specVars, guardVars,
                   chanVars, walkVars>>

\* the statements of Build::run between the guard's construction and the end
\* of its scope: an early return with an error, a failed or a successful build
GuardedBuild ==
    /\ pc = "guarded"
    /\ ~watch
    /\ \E outcome \in {"early_return", "build_error", "success"} :
        /\ build_started' = (outcome # "early_return")
        /\ result' = IF outcome = "success" THEN "ok" ELSE "err"
    /\ pc' = "drop"
    /\ UNCHANGED <<lock, inputs, cargo_lock_files_with_changed_manifest_versions,
                   rewritten, opened_for_write, error, exit_code>>
    /\ UNCHANGED <<installVars, schedVars, toolVars, srcVars, dirVars, specVars, guardVars,
                   chanVars, walkVars>>

\* log::error!("Couldn't revert some or all of the shader `Cargo.lock` files: {error}")
RevertErrorLine == "Couldn't revert some or all of the shader Cargo.lock files"

\* mutant: the error of the revert replaces the result of the guarded operation
DropPropagates ==
    /\ pc = "drop"
    /\ LET r == revert_cargo_lock_manifest_versions(
                    lock, cargo_lock_files_with_changed_manifest_versions)
       IN  /\ lock' = r.lock
           /\ opened_for_write' = CountOpened(opened_for_write, r.opened)
           /\ logged' = logged
           /\ result' = IF r.status = "err" THEN "err" ELSE result
    /\ pc' = "done"
    /\ UNCHANGED <<inputs, cargo_lock_files_with_changed_manifest_versions,
                   rewritten, error, exit_code, build_started>>
    /\ UNCHANGED <<gcurrent, gother>>
    /\ UNCHANGED <<installVars, schedVars, toolVars, srcVars, dirVars, specVars, chanVars,
                   walkVars>>

\* impl Drop for LockfileMismatchHandler
Drop ==
    /\ pc = "drop"
    /\ LET r == revert_cargo_lock_manifest_versions(
                    lock, cargo_lock_files_with_changed_manifest_versions)
       IN  /\ lock' = r.lock
           /\ opened_for_write' = CountOpened(opened_for_write, r.opened)
           /\ logged' = IF r.status = "err"
                        THEN Append(logged, [build |-> gcurrent, line |-> RevertErrorLine])
                        ELSE logged
    /\ pc' = "done"
    /\ UNCHANGED <<inputs, cargo_lock_files_with_changed_manifest_versions,
                   rewritten, result, error, exit_code, build_started>>
    /\ UNCHANGED <<gcurrent, gother>>
    /\ UNCHANGED <<installVars, schedVars, toolVars, srcVars, dirVars, specVars, chanVars,
                   walkVars>>

Next ==
    \/ BuildInstall
    \/ NewWorkspaceCheck
    \/ NewShaderCheck
    \/ GuardedBuild
    \/ Drop

Spec == Init /\ [][Next]_vars

(***************************************************************************)
(* Vocabulary of the properties                                            *)
(***************************************************************************)
HasThird(f) == f.exists /\ Len(f.lines) >= 3
MarkerIs(f, line) == HasThird(f) /\ f.lines[3] = line
MarkerContains(f, marker) == HasThird(f) /\ Contains(f.lines[3], marker)

\* a rustc version below 1.83.0, stated without the model's comparison
Old(v) == v[1] < 1 \/ (v[1] = 1 /\ v[2] < 83)

Range(q) == {q[i] : i \in DOMAIN q}

\* the files that construction rewrote from version 4 to version 3
Downgraded == {f \in Files : f \in rewritten /\ MarkerIs(orig[f], LineV4)}

GuardExists == pc \in {"guarded", "drop"}

\* the shader crate's Cargo.lock passes its inspection in the second check
ShaderPasses ==
    \/ ~lock["shader"].exists
    \/ MarkerContains(lock["shader"], LineV4) /\ force_overwrite_lockfiles_v4_to_v3
    \/ /\ MarkerContains(lock["shader"], LineV3)
       /\ ~MarkerContains(lock["shader"], LineV4)

\* the step Build::run takes next inspects the (existing) file f
InspectedNow(f) ==
    /\ lock[f].exists
    /\ IF f = "shader"
       THEN \/ pc = "new_workspace_check" /\ Old(workspace_rust_version)
            \/ pc = "new_shader_check" /\ Old(shader_rust_version)
       ELSE /\ pc = "new_shader_check" /\ Old(shader_rust_version)
            /\ ShaderPasses
            /\ get_workspace_root = "found"

\* the inspection of f by the next step lets f through
Accepted(f) ==
    CASE pc = "new_workspace_check" -> pc' = "new_shader_check"
      [] f = "workspace" -> pc' = "guarded"
      [] OTHER -> (get_workspace_root = "none" => pc' = "guarded")

FormatErrors == {"no third line", "Unrecognized Cargo.lock manifest version"}

(***************************************************************************)
(* C1: every Cargo.lock that the guard rewrote from version 4 to version 3 *)
(* carries the version 4 marker again when the guard's scope in Build::run *)
(* has ended, whichever way the guarded build step ended.                  *)
(***************************************************************************)
C1_RestoredOnEveryExit ==
    pc = "done" => \A f \in Downgraded : MarkerIs(lock[f], LineV4)

(***************************************************************************)
(* C2: round trip: a Cargo.lock whose third line is exactly `version = 4`  *)
(* and that the guard rewrote differs from the original only in that digit *)
(* while the guard is held, and equals the original after the release.     *)
(***************************************************************************)
C2_RoundTrip ==
    \A f \in Downgraded :
        /\ GuardExists => lock[f] = [orig[f] EXCEPT !.lines[3] = LineV3]
        /\ pc = "done" => lock[f] = orig[f]

(***************************************************************************)
(* C3: without the force_overwrite_lockfiles_v4_to_v3 authorization no     *)
(* Cargo.lock is ever changed, neither by construction nor by release.     *)
(***************************************************************************)
C3_NoChangeWithoutAuthorization ==
    ~force_overwrite_lockfiles_v4_to_v3 => lock = orig

(***************************************************************************)
(* C4: the guard's list holds only files that the guard itself rewrote     *)
(* from version 4 to version 3 during construction.                        *)
(***************************************************************************)
C4_OnlyRewrittenTracked ==
    \A i \in DOMAIN cargo_lock_files_with_changed_manifest_versions :
        cargo_lock_files_with_changed_manifest_versions[i] \in Downgraded

(***************************************************************************)
(* C5: with the authorization, every Cargo.lock that construction rewrote  *)
(* from version 4 to version 3 is in the guard's list once construction    *)
(* has returned.                                                           *)
(***************************************************************************)
C5_EveryRewrittenRecorded ==
    (force_overwrite_lockfiles_v4_to_v3 /\ pc \in {"guarded", "drop", "done"})
        => Downgraded \subseteq Range(cargo_lock_files_with_changed_manifest_versions)

(***************************************************************************)
(* C6: a Cargo.lock whose marker is `version = 3` before the guard is      *)
(* constructed is unchanged after the guard has been released.             *)
(***************************************************************************)
C6_V3Untouched ==
    pc = "done" => \A f \in Files : MarkerIs(orig[f], LineV3) => lock[f] = orig[f]

(***************************************************************************)
(* C7: when the invoking and the required toolchain are both at or above   *)
(* 1.83.0, no Cargo.lock is opened for writing, the guard's list is empty  *)
(* and the files keep their text, whatever the flag and the files are.     *)
(***************************************************************************)
C7_NoWriteAtOrAboveThreshold ==
    (~Old(workspace_rust_version) /\ ~Old(shader_rust_version))
        => /\ opened_for_write = [f \in Files |-> 0]
           /\ cargo_lock_files_with_changed_manifest_versions = <<>>
           /\ lock = orig

C7_Witness ==
    /\ pc = "done"
    /\ workspace_rust_version = RUST_VERSION_THAT_USES_V4_CARGO_LOCKS
    /\ ~Old(shader_rust_version)
    /\ force_overwrite_lockfiles_v4_to_v3
    /\ MarkerIs(orig["shader"], LineV4)
    /\ MarkerIs(orig["workspace"], LineV4)
    /\ get_workspace_root = "found"

(***************************************************************************)
(* C8: when a check inspects a Cargo.lock whose third line contains        *)
(* `version = 4` under a toolchain below 1.83.0 and the authorization is   *)
(* not granted, the process exits with status 1; no Cargo.lock has been    *)
(* rewritten or opened for writing and the guarded build has not started.  *)
(***************************************************************************)
C8_ExitWithoutAuthorization ==
    [][(/\ ~force_overwrite_lockfiles_v4_to_v3
        /\ \E f \in Files : InspectedNow(f) /\ MarkerContains(lock[f], LineV4))
       => /\ pc' = "exited"
          /\ exit_code' = 1
          /\ lock' = orig
          /\ rewritten' = {}
          /\ opened_for_write' = [f \in Files |-> 0]
          /\ ~build_started']_vars

C8_Witness ==
    /\ pc = "exited"
    /\ exit_code = 1
    /\ ~force_overwrite_lockfiles_v4_to_v3
    /\ MarkerIs(lock["workspace"], LineV4)
    /\ MarkerIs(lock["shader"], LineV3)

(***************************************************************************)
(* C9 as stated: an inspected Cargo.lock whose third line contains         *)
(* `version = 3` is accepted and not rewritten; one whose third line       *)
(* contains neither marker, or that has no third line, makes construction  *)
(* fail with a format error and is left as it was.                         *)
(***************************************************************************)
C9_InspectionAsStated ==
    [][\A f \in Files : InspectedNow(f) =>
          /\ MarkerContains(lock[f], LineV3)
                => /\ Accepted(f)
                   /\ lock'[f] = lock[f]
                   /\ opened_for_write'[f] = opened_for_write[f]
          /\ (~MarkerContains(lock[f], LineV3) /\ ~MarkerContains(lock[f], LineV4))
                => /\ pc' = "failed"
                   /\ result' = "err"
                   /\ error' \in FormatErrors
                   /\ lock'[f] = orig[f]]_vars

(***************************************************************************)
(* C9 amended: as above, for a third line that contains `version = 3` and  *)
(* does not contain `version = 4` (the `version = 4` test comes first).    *)
(***************************************************************************)
C9_Inspection ==
    [][\A f \in Files : InspectedNow(f) =>
          /\ (MarkerContains(lock[f], LineV3) /\ ~MarkerContains(lock[f], LineV4))
                => /\ Accepted(f)
                   /\ lock'[f] = lock[f]
                   /\ opened_for_write'[f] = opened_for_write[f]
          /\ (~MarkerContains(lock[f], LineV3) /\ ~MarkerContains(lock[f], LineV4))
                => /\ pc' = "failed"
                   /\ result' = "err"
                   /\ error' \in FormatErrors
                   /\ lock'[f] = orig[f]]_vars

C9_Witness ==
    /\ pc = "failed"
    /\ error = "Unrecognized Cargo.lock manifest version"
    /\ MarkerIs(orig["shader"], LineV3x)
    /\ MarkerIs(orig["workspace"], LineOther)
    /\ lock = orig

(***************************************************************************)
(* spirv_source.rs: texts are sequences of characters, paths are sequences *)
(* of components below the filesystem root                                 *)
(***************************************************************************)
\* str::starts_with
starts_with(text, prefix) ==
    Len(text) >= Len(prefix) /\ SubSeq(text, 1, Len(prefix)) = prefix

\* the UTF-8 length of a character
Width(c) == IF c = "é" THEN 2 ELSE 1

RECURSIVE ByteLen(_)
ByteLen(text) ==
    IF text = <<>> THEN 0 ELSE Width(text[1]) + ByteLen(SubSeq(text, 2, Len(text)))

\* the numbers of characters that end at byte index n
Boundary(text, n) == {k \in 0..Len(text) : ByteLen(SubSeq(text, 1, k)) = n}

\* str::find(char): the byte index of the first occurrence
find(text, c) ==
    LET hits == {i \in DOMAIN text : text[i] = c}
    IN  IF hits = {} THEN None
        ELSE Some(ByteLen(SubSeq(text, 1, (CHOOSE i \in hits : \A j \in hits : i <= j) - 1)))

\* str::get(from..): None unless the byte index is a character boundary
get_from(text, from) ==
    IF Boundary(text, from) = {} THEN None
    ELSE Some(SubSeq(text, (CHOOSE k \in Boundary(text, from) : TRUE) + 1, Len(text)))

\* str::get(..to): None unless the byte index is a character boundary
get_to(text, to) ==
    IF Boundary(text, to) = {} THEN None
    ELSE Some(SubSeq(text, 1, CHOOSE k \in Boundary(text, to) : TRUE))

DigitChars == <<"0", "1", "2", "3", "4", "5", "6", "7", "8", "9">>

DigitVal(c) == (CHOOSE n \in DOMAIN DigitChars : DigitChars[n] = c) - 1

RECURSIVE NumberOf(_)
NumberOf(digits) ==
    IF digits = <<>> THEN 0
    ELSE 10 * NumberOf(SubSeq(digits, 1, Len(digits) - 1)) + DigitVal(digits[Len(digits)])

\* a numeric identifier of semver: digits, no leading zero
IsNumericIdentifier(t) ==
    /\ t # <<>>
    /\ \A i \in DOMAIN t : \E n \in DOMAIN DigitChars : DigitChars[n] = t[i]
    /\ Len(t) > 1 => t[1] # "0"

\* semver::Version::parse, for versions without pre-release and build parts
Version_parse(text) ==
    LET dots == {i \in DOMAIN text : text[i] = "."}
    IN  IF Cardinality(dots) # 2 THEN None
        ELSE LET d1 == CHOOSE i \in dots : \A j \in dots : i <= j
                 d2 == CHOOSE i \in dots : \A j \in dots : i >= j
                 major == SubSeq(text, 1, d1 - 1)
                 minor == SubSeq(text, d1 + 1, d2 - 1)
                 patch == SubSeq(text, d2 + 1, Len(text))
             IN  IF \A t \in {major, minor, patch} : IsNumericIdentifier(t)
                 THEN Some(<<NumberOf(major), NumberOf(minor), NumberOf(patch)>>)
                 ELSE None

RECURSIVE ToDecimal(_)
ToDecimal(n) ==
    IF n < 10 THEN <<DigitChars[n + 1]>>
    ELSE ToDecimal(n \div 10) \o <<DigitChars[(n % 10) + 1]>>

\* impl Display for Version
Version_fmt(v) == ToDecimal(v[1]) \o <<".">> \o ToDecimal(v[2]) \o <<".">> \o ToDecimal(v[3])

\* the variants of SpirvSource
CratesIO(version) == [kind |-> "CratesIO", version |-> version]
Git(url, rev) == [kind |-> "Git", url |-> url, rev |-> rev]
Path(rust_gpu_repo_root, version) ==
    [kind |-> "Path", rust_gpu_repo_root |-> rust_gpu_repo_root, version |-> version]

Ok(x) == [status |-> "ok", val |-> x]
Err(e) == [status |-> "err", error |-> e]

\* the provenance cargo records for a package of crates.io
CratesIoRepr == <<"registry+https://github.com/rust-lang/crates.io-index">>

\* cargo_metadata::Source::is_crates_io
is_crates_io(repr) == repr = CratesIoRepr

GitPrefix == <<"g", "i", "t", "+">>

\* the closure parse_git of parse_spirv_std_source_and_version
parse_git(repr) ==
    LET link == get_from(repr, 4)
    IN  IF ~link.some THEN None
        ELSE LET sharp_index == find(link.val, "#")
                 question_mark_index == find(link.val, "?")
             IN  IF ~sharp_index.some \/ ~question_mark_index.some THEN None
                 ELSE LET url == get_to(link.val, question_mark_index.val)
                          rev == get_from(link.val, sharp_index.val + 1)
                      IN  IF url.some /\ rev.some THEN Some(Git(url.val, rev.val))
                          ELSE None

\* Utf8Path::parent of an absolute path
parent(path) == IF path = <<>> THEN None ELSE Some(SubSeq(path, 1, Len(path) - 1))

\* Option::and_then(Utf8Path::parent)
and_then_parent(opt) == IF opt.some THEN parent(opt.val) ELSE None

\* mutant: the root is taken two levels above the manifest
repo_root_two_levels_up(manifest_path) == and_then_parent(parent(manifest_path))

\* manifest_path.parent().and_then(Utf8Path::parent).and_then(Utf8Path::parent)
repo_root_of(manifest_path) == and_then_parent(and_then_parent(parent(manifest_path)))

\* SpirvSource::parse_spirv_std_source_and_version
parse_spirv_std_source_and_version(package, is_dir) ==
    IF package.source.some
    THEN LET repr == package.source.val
             is_git == starts_with(repr, GitPrefix)
         IN  CASE is_git /\ is_crates_io(repr) -> Err("parsed both git and crates.io?")
               [] is_git /\ ~is_crates_io(repr) ->
                    IF parse_git(repr).some THEN Ok(parse_git(repr).val)
                    ELSE Err("Failed to parse git url")
               [] ~is_git /\ is_crates_io(repr) -> Ok(CratesIO(package.version))
               [] OTHER -> Err("Metadata of spirv-std package uses unknown url format!")
    ELSE LET rust_gpu_repo_root == repo_root_of(package.manifest_path)
         IN  IF ~rust_gpu_repo_root.some
             THEN Err("selecting rust-gpu workspace root dir in local path")
             ELSE IF ~is_dir THEN Err("is not a directory")
             ELSE Ok(Path(rust_gpu_repo_root.val, package.version))

\* let channel_start = "channel = \"";
channel_start == <<"c", "h", "a", "n", "n", "e", "l", " ", "=", " ", "\"">>

\* str::strip_prefix
strip_prefix(line, prefix) ==
    IF starts_with(line, prefix) THEN Some(SubSeq(line, Len(prefix) + 1, Len(line)))
    ELSE None

\* mutant: the last line with the prefix is taken
get_channel_from_last_line(script) ==
    IF ~script.some THEN Err("reading build.rs")
    ELSE LET hits == {i \in DOMAIN script.val : strip_prefix(script.val[i], channel_start).some}
         IN  IF hits = {} THEN Err("Can't find channel line")
             ELSE LET channel_line ==
                          strip_prefix(script.val[CHOOSE i \in hits : \A j \in hits : i >= j],
                                       channel_start).val
                      end == find(channel_line, "\"")
                  IN  IF ~end.some THEN Err("ending quote missing")
                      ELSE LET channel == get_to(channel_line, end.val)
                           IN  IF channel.some THEN Ok(channel.val)
                               ELSE Err("can't slice version")

\* get_channel_from_rustc_codegen_spirv_build_script, on the lines of build.rs
get_channel_from_rustc_codegen_spirv_build_script(script) ==
    IF ~script.some THEN Err("reading build.rs")
    ELSE LET hits == {i \in DOMAIN script.val : strip_prefix(script.val[i], channel_start).some}
         IN  IF hits = {} THEN Err("Can't find channel line")
             ELSE LET channel_line ==
                          strip_prefix(script.val[CHOOSE i \in hits : \A j \in hits : i <= j],
                                       channel_start).val
                      end == find(channel_line, "\"")
                  IN  IF ~end.some THEN Err("ending quote missing")
                      ELSE LET channel == get_to(channel_line, end.val)
                           IN  IF channel.some THEN Ok(channel.val)
                               ELSE Err("can't slice version")

\* mutant: a missing package is replaced by the first package of the metadata
find_package_or_first(packages, crate_name) ==
    LET hits == {i \in DOMAIN packages : packages[i].name = crate_name}
    IN  IF packages = <<>> THEN Err("not found in Cargo.toml")
        ELSE IF hits = {} THEN Ok(packages[1])
        ELSE Ok(packages[CHOOSE i \in hits : \A j \in hits : i <= j])

\* impl FindPackage for Metadata: the first package of that name
find_package(packages, crate_name) ==
    LET hits == {i \in DOMAIN packages : packages[i].name = crate_name}
    IN  IF hits = {} THEN Err("not found in Cargo.toml")
        ELSE Ok(packages[CHOOSE i \in hits : \A j \in hits : i <= j])

\* SpirvSource::get_rust_gpu_deps_from_shader
get_rust_gpu_deps_from_shader(crate_metadata, is_dir) ==
    IF ~crate_metadata.some THEN Err("cargo metadata")
    ELSE LET spirv_std_package == find_package(crate_metadata.val, "spirv-std")
         IN  IF spirv_std_package.status = "err" THEN spirv_std_package
             ELSE parse_spirv_std_source_and_version(spirv_std_package.val, is_dir)

\* mutant: a version override alone is taken for a revision of the project's source
SpirvSource_new_version_ignored(source_override, version_override, crate_metadata, is_dir) ==
    IF version_override.some /\ source_override.some
    THEN [result |-> Ok(Git(source_override.val, version_override.val)), inspected |-> FALSE]
    ELSE [result |-> get_rust_gpu_deps_from_shader(crate_metadata, is_dir), inspected |-> TRUE]

\* mutant: a url override alone names a Git source at its default branch
SpirvSource_new_url_alone(source_override, version_override, crate_metadata, is_dir) ==
    IF version_override.some
    THEN IF source_override.some
         THEN [result |-> Ok(Git(source_override.val, version_override.val)),
               inspected |-> FALSE]
         ELSE LET version == Version_parse(version_override.val)
              IN  [result |-> IF version.some THEN Ok(CratesIO(version.val))
                              ELSE Err("semver"),
                   inspected |-> FALSE]
    ELSE IF source_override.some
         THEN [result |-> Ok(Git(source_override.val, <<"H", "E", "A", "D">>)),
               inspected |-> FALSE]
         ELSE [result |-> get_rust_gpu_deps_from_shader(crate_metadata, is_dir),
               inspected |-> TRUE]

\* SpirvSource::new: its result, and whether the shader crate was inspected
SpirvSource_new(source_override, version_override, crate_metadata, is_dir) ==
    IF version_override.some
    THEN IF source_override.some
         THEN [result |-> Ok(Git(source_override.val, version_override.val)),
               inspected |-> FALSE]
         ELSE LET version == Version_parse(version_override.val)
              IN  [result |-> IF version.some THEN Ok(CratesIO(version.val))
                              ELSE Err("semver"),
                   inspected |-> FALSE]
    ELSE [result |-> get_rust_gpu_deps_from_shader(crate_metadata, is_dir),
          inspected |-> TRUE]

(***************************************************************************)
(* lib.rs: cache_dir and to_dirname; SpirvSource: Display and install_dir  *)
(***************************************************************************)
\* Utf8PathBuf as text: the components of an absolute path, each after a /
RECURSIVE path_fmt(_)
path_fmt(path) ==
    IF path = <<>> THEN <<>>
    ELSE path_fmt(SubSeq(path, 1, Len(path) - 1)) \o <<"/", path[Len(path)]>>

\* mutant: the revision is rendered in full
SpirvSource_fmt_full_rev(src) ==
    CASE src.kind = "CratesIO" -> Version_fmt(src.version)
      [] src.kind = "Git" -> src.url \o <<"+">> \o src.rev
      [] src.kind = "Path" -> path_fmt(src.rust_gpu_repo_root) \o <<"+">> \o Version_fmt(src.version)

\* impl Display for SpirvSource
SpirvSource_fmt(src) ==
    CASE src.kind = "CratesIO" -> Version_fmt(src.version)
      [] src.kind = "Git" ->
            LET short_rev == get_to(src.rev, 8)
            IN  src.url \o <<"+">> \o (IF short_rev.some THEN short_rev.val ELSE src.rev)
      [] src.kind = "Path" ->
            path_fmt(src.rust_gpu_repo_root) \o <<"+">> \o Version_fmt(src.version)

\* the characters to_dirname replaces by _ (MAIN_SEPARATOR is / or \) and removes
ReplacedChars == {"\\", "/", ".", ":", "@", "="}
RemovedChars == {"{", "}", " ", "\n", "\"", "'"}

\* str::replace([chars], "_")
replace_chars(text) == [i \in DOMAIN text |-> IF text[i] \in ReplacedChars THEN "_" ELSE text[i]]

\* str::split([chars]): the pieces between the separators
RECURSIVE split_chars(_)
split_chars(text) ==
    LET seps == {i \in DOMAIN text : text[i] \in RemovedChars}
    IN  IF seps = {} THEN <<text>>
        ELSE LET i == CHOOSE k \in seps : \A j \in seps : k <= j
             IN  <<SubSeq(text, 1, i - 1)>> \o split_chars(SubSeq(text, i + 1, Len(text)))

\* [&str]::concat
RECURSIVE concat(_)
concat(pieces) == IF pieces = <<>> THEN <<>> ELSE pieces[1] \o concat(SubSeq(pieces, 2, Len(pieces)))

\* mutant: the backslash is not replaced
to_dirname_keeps_backslash(text) ==
    concat(split_chars([i \in DOMAIN text |->
                          IF text[i] \in ReplacedChars \ {"\\"} THEN "_" ELSE text[i]]))

\* to_dirname
to_dirname(text) == concat(split_chars(replace_chars(text)))

\* mutant: every build keeps one cache directory per thread
cache_dir_always_per_thread(base, is_test, thread_id) ==
    IF ~base.some THEN Err("could not find the user home directory")
    ELSE Ok(base.val \o <<"rust-gpu", "tests", <<"ThreadId-", thread_id>>>>)

\* cache_dir
cache_dir(base, is_test, thread_id) ==
    IF ~base.some THEN Err("could not find the user home directory")
    ELSE LET dir == base.val \o <<"rust-gpu">>
         IN  Ok(IF is_test THEN dir \o <<"tests", <<"ThreadId-", thread_id>>>> ELSE dir)

\* SpirvSource::install_dir
SpirvSource_install_dir(src, base, is_test, thread_id) ==
    IF src.kind = "Path" THEN Ok(src.rust_gpu_repo_root)
    ELSE LET dir == to_dirname(SpirvSource_fmt(src))
             cache == cache_dir(base, is_test, thread_id)
         IN  IF cache.status = "err" THEN cache
             ELSE Ok(cache.val \o <<"codegen", dir>>)

(***************************************************************************)
(* Install::run                                                            *)
(***************************************************************************)
Sources == {"CratesIO", "Git", "Path"}

\* SpirvSource::is_path
is_path(src) == src = "Path"

\* SpirvSource::install_dir
install_dir(src) ==
    IF is_path(src) THEN <<"rust_gpu_repo_root">> ELSE <<"cache_dir", "codegen", src>>

\* dest_dylib_path of Install::run
dest_dylib_path(src) ==
    IF is_path(src)
    THEN install_dir(src) \o <<"target", "release", "rustc_codegen_spirv">>
    ELSE install_dir(src) \o <<"rustc_codegen_spirv">>

\* dest_dylib_path.is_file()
DestIsFile == IF is_path(source) THEN target_dylib ELSE dest_dylib

\* mutant: the negation of the flag is lost
skip_rebuild_decision_flag_inverted(src, dest_is_file, rebuild) ==
    ~is_path(src) /\ dest_is_file /\ rebuild

\* mutant: the probe does not look for the artifact
skip_rebuild_decision_trusts_absent(src, dest_is_file, rebuild) ==
    ~is_path(src) /\ ~rebuild

\* mutant: a local path is probed like any other source
skip_rebuild_decision_ignores_path(src, dest_is_file, rebuild) ==
    dest_is_file /\ ~rebuild

\* let skip_rebuild = !source.is_path() && dest_dylib_path.is_file() && !self.rebuild_codegen
skip_rebuild_decision(src, dest_is_file, rebuild) ==
    ~is_path(src) /\ dest_is_file /\ ~rebuild

\* get_channel_from_rustc_codegen_spirv_build_script, of the backend the source names
ChannelOf(src) == <<"channel", src>>

\* mutant: the target specs are written on a cache hit too
update_spec_files_on_hit_too(src, skip, has_package, src_is_dir) ==
    LET dst == install_dir(src) \o <<"target-specs">>
    IN  IF has_package /\ ~src_is_dir
        THEN [status |-> "err", dir |-> dst, wrote |-> {}]
        ELSE [status |-> "ok", dir |-> dst, wrote |-> {dst}]

\* mutant: the legacy bundle of a local checkout is written below the checkout
update_spec_files_legacy_in_checkout(src, skip, has_package, src_is_dir) ==
    LET dst == install_dir(src) \o <<"target-specs">>
    IN  IF skip THEN [status |-> "ok", dir |-> dst, wrote |-> {}]
        ELSE IF has_package
        THEN IF ~src_is_dir THEN [status |-> "err", dir |-> dst, wrote |-> {}]
             ELSE IF is_path(src)
             THEN [status |-> "ok",
                   dir |-> <<"rustc_codegen_spirv-target-specs", "target-specs">>,
                   wrote |-> {}]
             ELSE [status |-> "ok", dir |-> dst, wrote |-> {dst}]
        ELSE [status |-> "ok", dir |-> dst, wrote |-> {dst}]

\* Install::update_spec_files: status, the directory returned, the directories written
update_spec_files(src, skip, has_package, src_is_dir) ==
    LET dst == install_dir(src) \o <<"target-specs">>
        legacy == IF is_path(src)
                  THEN <<"cache_dir", "legacy-target-specs-for-local-checkout">>
                  ELSE dst
    IN  IF skip THEN [status |-> "ok", dir |-> dst, wrote |-> {}]
        ELSE IF has_package
        THEN IF ~src_is_dir THEN [status |-> "err", dir |-> dst, wrote |-> {}]
             ELSE IF is_path(src)
             THEN [status |-> "ok",
                   dir |-> <<"rustc_codegen_spirv-target-specs", "target-specs">>,
                   wrote |-> {}]
             ELSE [status |-> "ok", dir |-> dst, wrote |-> {dst}]
        ELSE [status |-> "ok", dir |-> legacy, wrote |-> {legacy}]

(***************************************************************************)
(* target_specs.rs                                                         *)
(***************************************************************************)
\* cache_dir()?.join("legacy-target-specs-for-local-checkout")
LegacyShared == <<"cache_dir", "legacy-target-specs-for-local-checkout">>

\* the target-specs directory next to the manifest of the companion package
CompanionDir == <<"rustc_codegen_spirv-target-specs", "target-specs">>

\* source.install_dir()?.join("target-specs")
target_specs_dst(src) == install_dir(src) \o <<"target-specs">>

\* mutant: the legacy bundle of a local checkout goes below its install directory
update_target_specs_files_legacy_in_install_dir(src, has_package, src_is_dir, update_files) ==
    LET dst == target_specs_dst(src)
        written(d) == IF update_files THEN {d} ELSE {}
    IN  IF has_package
        THEN IF ~src_is_dir THEN [status |-> "err", dir |-> dst, wrote |-> {}]
             ELSE IF is_path(src) THEN [status |-> "ok", dir |-> CompanionDir, wrote |-> {}]
             ELSE [status |-> "ok", dir |-> dst, wrote |-> written(dst)]
        ELSE [status |-> "ok", dir |-> dst, wrote |-> written(dst)]

\* mutant: update_files is not consulted
update_target_specs_files_always_updates(src, has_package, src_is_dir, update_files) ==
    LET dst == target_specs_dst(src)
        legacy == IF is_path(src) THEN LegacyShared ELSE dst
    IN  IF has_package
        THEN IF ~src_is_dir THEN [status |-> "err", dir |-> dst, wrote |-> {}]
             ELSE IF is_path(src) THEN [status |-> "ok", dir |-> CompanionDir, wrote |-> {}]
             ELSE [status |-> "ok", dir |-> dst, wrote |-> {dst}]
        ELSE [status |-> "ok", dir |-> legacy, wrote |-> {legacy}]

\* update_target_specs_files: status, the directory returned, the directories written
update_target_specs_files(src, has_package, src_is_dir, update_files) ==
    LET dst == target_specs_dst(src)
        legacy == IF is_path(src) THEN LegacyShared ELSE dst
        written(d) == IF update_files THEN {d} ELSE {}
    IN  IF has_package
        THEN IF ~src_is_dir THEN [status |-> "err", dir |-> dst, wrote |-> {}]
             ELSE IF is_path(src) THEN [status |-> "ok", dir |-> CompanionDir, wrote |-> {}]
             ELSE [status |-> "ok", dir |-> dst, wrote |-> written(dst)]
        ELSE [status |-> "ok", dir |-> legacy, wrote |-> written(legacy)]

\* a directory just created
EmptyDir == [n \in SpecNames |-> "absent"]

\* std::fs::create_dir_all(dir): a directory that exists keeps its content
create_dir_all(dir) == IF dir.some THEN dir.val ELSE EmptyDir

\* mutant: a file the destination already holds is not overwritten
copy_spec_files_keeps_existing(entries, dir) ==
    LET made == create_dir_all(dir)
    IN  Some([n \in SpecNames |->
                IF n \in DOMAIN entries /\ entries[n] = "file" /\ made[n] = "absent"
                THEN "companion" ELSE made[n]])

\* copy_spec_files(src, dst): every entry of src that is a file is copied
copy_spec_files(entries, dir) ==
    LET made == create_dir_all(dir)
    IN  Some([n \in SpecNames |->
                IF n \in DOMAIN entries /\ entries[n] = "file"
                THEN "companion" ELSE made[n]])

\* write_legacy_target_specs(target_spec_dir): every file of TARGET_SPECS is written
write_legacy_target_specs(dir) ==
    LET made == create_dir_all(dir)
    IN  Some([n \in SpecNames |-> IF n \in LegacyNames THEN "legacy" ELSE made[n]])

\* the file system after a resolution that wrote the directories r.wrote
WriteSpecs(r, has_package, entries, files) ==
    [d \in DOMAIN files |->
        IF d \notin r.wrote THEN files[d]
        ELSE IF has_package THEN copy_spec_files(entries, files[d])
        ELSE write_legacy_target_specs(files[d])]

NoBackend ==
    [rustc_codegen_spirv_location |-> <<>>, toolchain_channel |-> <<>>,
     target_spec_dir |-> <<>>]

\* the invocation ends: what it returned is appended to the history
Finish(status, backend) ==
    /\ runs' = Append(runs, [status |-> status, backend |-> backend,
                             rebuild_codegen |-> rebuild_codegen',
                             builds |-> builds_this_run',
                             skip_rebuild |-> skip_rebuild',
                             build_status |-> build_status',
                             steps |-> steps',
                             failed_at |-> IF status = "ok" THEN "" ELSE ipc,
                             proc |-> current])
    /\ ipc' = "idle"

\* the guard's variables while Install::run is studied alone
LockIdle ==
    /\ pc = "start"
    /\ lock = [f \in Files |-> Absent]
    /\ orig = lock
    /\ workspace_rust_version = RUST_VERSION_THAT_USES_V4_CARGO_LOCKS
    /\ shader_rust_version = RUST_VERSION_THAT_USES_V4_CARGO_LOCKS
    /\ force_overwrite_lockfiles_v4_to_v3 = FALSE
    /\ cargo_toml = "standalone"
    /\ ancestors = 0
    /\ lock_level = 0
    /\ cargo_lock_files_with_changed_manifest_versions = <<>>
    /\ rewritten = {}
    /\ opened_for_write = [f \in Files |-> 0]
    /\ result = "none"
    /\ error = ""
    /\ exit_code = -1
    /\ build_started = FALSE
    /\ watch = FALSE

\* the caches Install::run may find: empty, or left by a finished installation
InstallStart ==
    /\ ipc = "idle"
    /\ source \in Sources
    /\ rebuild_codegen = FALSE
    /\ clear_target \in BOOLEAN
    /\ has_target_specs_package \in BOOLEAN
    /\ target_specs_src_is_dir \in BOOLEAN
    /\ has_target_specs_package \/ ~target_specs_src_is_dir
    /\ builds_dylib \in BOOLEAN
    /\ \E installed \in {b \in BOOLEAN : b => builds_dylib} :
        /\ dest_dylib = (installed /\ ~is_path(source))
        /\ target_dylib = (installed /\ is_path(source))
        /\ target_dir = (installed /\ (is_path(source) \/ ~clear_target))
        /\ placeholder = (installed /\ ~is_path(source))
        /\ install_lock = (installed /\ ~is_path(source))
        /\ spec_dirs = IF installed /\ ~is_path(source)
                       THEN {install_dir(source) \o <<"target-specs">>}
                       ELSE {}
    /\ skip_rebuild = FALSE
    /\ toolchain_channel = ""
    /\ target_spec_dir = <<>>
    /\ builds_this_run = 0
    /\ build_status = "none"
    /\ steps = <<>>
    /\ dest_partial = FALSE
    /\ target_partial = FALSE
    /\ runs = <<>>
    /\ current = 1
    /\ other = LocalsIdle

InitInstall ==
    /\ LockIdle
    /\ InstallStart
    /\ ToolIdle
    /\ SrcIdle
    /\ DirIdle
    /\ SpecIdle
    /\ GuardIdle
    /\ WalkIdle
    /\ ChanIdle

\* what an invocation is given and never changes
installInputs ==
    <<source, clear_target, has_target_specs_package, target_specs_src_is_dir, builds_dylib>>

\* the invocations begun so far, on either process
Started == Len(runs) + (IF other.ipc = "idle" THEN 0 ELSE 1)

\* Install::run up to the cache probe, for a force-rebuild flag and an outcome
\* of SpirvSource::new
BeginWith(flag, resolved) ==
    /\ ipc = "idle"
    /\ Started < MaxRuns
    /\ builds_this_run' = 0
    /\ build_status' = "none"
    /\ UNCHANGED <<installInputs, dest_dylib, target_dylib, target_dir, placeholder,
                   install_lock, spec_dirs, toolchain_channel, target_spec_dir,
                   dest_partial, target_partial>>
    /\ UNCHANGED <<lockVars, schedVars, toolVars, dirVars, specVars, guardVars, chanVars, walkVars>>
    /\ rebuild_codegen' = flag
    /\ IF resolved
       THEN /\ skip_rebuild' = skip_rebuild_decision(source, DestIsFile, flag)
            /\ steps' = <<"resolve_source", "install_dir", "cache_probe">>
            /\ ipc' = IF skip_rebuild' THEN "resolve_channel" ELSE "write_source_files"
            /\ UNCHANGED runs
       ELSE /\ skip_rebuild' = FALSE
            /\ steps' = <<>>
            /\ Finish("err", NoBackend)

\* cache_dir, SpirvSource::new, install_dir, the cache probe
InstallBegin ==
    /\ UNCHANGED srcVars
    /\ \E flag \in BOOLEAN, resolved \in BOOLEAN : BeginWith(flag, resolved)

\* mutant: a rebuild begins by clearing the install directory, artifact included
WriteSourceFilesIntoClearedDir ==
    /\ ipc = "write_source_files"
    /\ UNCHANGED <<installInputs, rebuild_codegen, target_dylib, target_dir,
                   install_lock, spec_dirs, skip_rebuild, toolchain_channel,
                   target_spec_dir, builds_this_run, build_status, target_partial>>
    /\ UNCHANGED <<lockVars, schedVars, toolVars, srcVars, dirVars, specVars, guardVars,
                   chanVars, walkVars>>
    /\ dest_dylib' = (dest_dylib /\ is_path(source))
    /\ dest_partial' = (dest_partial /\ is_path(source))
    /\ \E ok \in BOOLEAN :
        IF is_path(source) \/ ok
        THEN /\ placeholder' = (placeholder \/ ~is_path(source))
             /\ steps' = Append(steps, "write_source_files")
             /\ ipc' = "resolve_channel"
             /\ UNCHANGED runs
        ELSE /\ UNCHANGED <<placeholder, steps>>
             /\ Finish("err", NoBackend)

\* Install::write_source_files
WriteSourceFiles ==
    /\ ipc = "write_source_files"
    /\ UNCHANGED <<installInputs, rebuild_codegen, dest_dylib, target_dylib, target_dir,
                   install_lock, spec_dirs, skip_rebuild, toolchain_channel,
                   target_spec_dir, builds_this_run, build_status, dest_partial,
                   target_partial>>
    /\ UNCHANGED <<lockVars, schedVars, toolVars, srcVars, dirVars, specVars, guardVars,
                   chanVars, walkVars>>
    /\ \E ok \in BOOLEAN :
        IF is_path(source) \/ ok
        THEN /\ placeholder' = (placeholder \/ ~is_path(source))
             /\ steps' = Append(steps, "write_source_files")
             /\ ipc' = "resolve_channel"
             /\ UNCHANGED runs
        ELSE /\ UNCHANGED <<placeholder, steps>>
             /\ Finish("err", NoBackend)

\* query_metadata, find_package, get_channel_from_rustc_codegen_spirv_build_script
ResolveChannel ==
    /\ ipc = "resolve_channel"
    /\ UNCHANGED <<installInputs, rebuild_codegen, dest_dylib, target_dylib, target_dir,
                   placeholder, spec_dirs, skip_rebuild, target_spec_dir, builds_this_run,
                   build_status, dest_partial, target_partial>>
    /\ UNCHANGED <<lockVars, schedVars, toolVars, srcVars, dirVars, specVars, guardVars,
                   chanVars, walkVars>>
    /\ \E ok \in BOOLEAN :
        IF ok
        THEN /\ toolchain_channel' = ChannelOf(source)
             /\ install_lock' = (install_lock \/ ~is_path(source))
             /\ steps' = Append(steps, "resolve_channel")
             /\ ipc' = "update_spec_files"
             /\ UNCHANGED runs
        ELSE /\ UNCHANGED <<toolchain_channel, install_lock, steps>>
             /\ Finish("err", NoBackend)

\* mutant: the toolchain is not provisioned before the build
AfterSpecFilesNoProvisioning(skip) == IF skip THEN "return" ELSE "remove_cargo_lock"

\* if !skip_rebuild { ensure_toolchain_and_components_exist .. } Ok(InstalledBackend)
AfterSpecFiles(skip) == IF skip THEN "return" ELSE "ensure_toolchain"

\* self.update_spec_files(&source, &install_dir, &dummy_metadata, skip_rebuild)
UpdateSpecFiles ==
    /\ ipc = "update_spec_files"
    /\ UNCHANGED <<installInputs, rebuild_codegen, dest_dylib, target_dylib, target_dir,
                   placeholder, install_lock, skip_rebuild, toolchain_channel,
                   builds_this_run, build_status, dest_partial, target_partial>>
    /\ UNCHANGED <<lockVars, schedVars, toolVars, srcVars, dirVars, specVars, guardVars,
                   chanVars, walkVars>>
    /\ LET r == update_spec_files(source, skip_rebuild, has_target_specs_package,
                                  target_specs_src_is_dir)
       IN  IF r.status = "ok"
           THEN /\ target_spec_dir' = r.dir
                /\ spec_dirs' = spec_dirs \cup r.wrote
                /\ steps' = steps \o (IF r.wrote = {} THEN <<>> ELSE <<"write_target_specs">>)
                                \o <<"update_spec_files">>
                /\ ipc' = AfterSpecFiles(skip_rebuild)
                /\ UNCHANGED runs
           ELSE /\ UNCHANGED <<target_spec_dir, spec_dirs, steps>>
                /\ Finish("err", NoBackend)

\* crate::install_toolchain::ensure_toolchain_and_components_exist
EnsureToolchain ==
    /\ ipc = "ensure_toolchain"
    /\ UNCHANGED <<installInputs, rebuild_codegen, dest_dylib, target_dylib, target_dir,
                   placeholder, install_lock, spec_dirs, skip_rebuild, toolchain_channel,
                   target_spec_dir, builds_this_run, build_status, dest_partial,
                   target_partial>>
    /\ UNCHANGED <<lockVars, schedVars, toolVars, srcVars, dirVars, specVars, guardVars,
                   chanVars, walkVars>>
    /\ \E ok \in BOOLEAN :
        IF ok
        THEN /\ steps' = Append(steps, "ensure_toolchain")
             /\ ipc' = "remove_cargo_lock"
             /\ UNCHANGED runs
        ELSE /\ UNCHANGED steps
             /\ Finish("err", NoBackend)

\* std::fs::remove_file(install_dir.join("Cargo.lock")), for a source that is no path
RemoveCargoLock ==
    /\ ipc = "remove_cargo_lock"
    /\ UNCHANGED <<installInputs, rebuild_codegen, dest_dylib, target_dylib, target_dir,
                   placeholder, spec_dirs, skip_rebuild, toolchain_channel,
                   target_spec_dir, builds_this_run, build_status, dest_partial,
                   target_partial>>
    /\ UNCHANGED <<lockVars, schedVars, toolVars, srcVars, dirVars, specVars, guardVars,
                   chanVars, walkVars>>
    /\ IF is_path(source)
       THEN ipc' = "build" /\ UNCHANGED <<install_lock, steps, runs>>
       ELSE IF install_lock
       THEN /\ install_lock' = FALSE
            /\ steps' = Append(steps, "remove_cargo_lock")
            /\ ipc' = "build"
            /\ UNCHANGED runs
       ELSE /\ UNCHANGED <<install_lock, steps>>
            /\ Finish("err", NoBackend)

\* mutant: the exit status of the compiler build is not looked at
BuildSucceededWhateverStatus(status) == TRUE

\* output.status.success()
BuildSucceeded(status) == status = "success"

\* whether a build that stops early leaves an incomplete file at the artifact's
\* path in target: only if the build writes that file at all, and cargo does not
\* rewrite an artifact that is up to date
PartialWrites ==
    {w \in BOOLEAN : w => (builds_dylib /\ (~target_dylib \/ target_partial))}

\* the `cargo +<channel> build --release` subprocess is started
CompilerBuild ==
    /\ ipc = "build"
    /\ UNCHANGED <<installInputs, rebuild_codegen, dest_dylib, target_dylib, placeholder,
                   spec_dirs, skip_rebuild, toolchain_channel, target_spec_dir,
                   build_status, steps, dest_partial, target_partial, runs>>
    /\ UNCHANGED <<lockVars, schedVars, toolVars, srcVars, dirVars, specVars, guardVars,
                   chanVars, walkVars>>
    /\ builds_this_run' = builds_this_run + 1
    /\ target_dir' = TRUE
    /\ install_lock' = (install_lock \/ ~is_path(source))
    /\ ipc' = "building"

\* the subprocess has ended: .output() and the test of its exit status
BuildExit ==
    /\ ipc = "building"
    /\ UNCHANGED <<installInputs, rebuild_codegen, dest_dylib, placeholder, install_lock,
                   spec_dirs, skip_rebuild, toolchain_channel, target_spec_dir,
                   builds_this_run, dest_partial>>
    /\ UNCHANGED <<lockVars, schedVars, toolVars, srcVars, dirVars, specVars, guardVars,
                   chanVars, walkVars>>
    /\ \E outcome \in {"built", "bad_status", "no_dylib"}, wrote \in PartialWrites :
        /\ outcome = "built" => builds_dylib
        /\ outcome = "no_dylib" => ~builds_dylib
        /\ build_status' = IF outcome = "bad_status" THEN "bad" ELSE "success"
        /\ CASE outcome = "built" ->
                  /\ target_dir' = TRUE
                  /\ target_dylib' = TRUE
                  /\ target_partial' = FALSE
             [] outcome = "bad_status" /\ wrote ->
                  /\ target_dir' = TRUE
                  /\ target_dylib' = TRUE
                  /\ target_partial' = TRUE
             [] OTHER -> UNCHANGED <<target_dir, target_dylib, target_partial>>
        /\ IF BuildSucceeded(build_status')
           THEN /\ steps' = Append(steps, "build")
                /\ ipc' = "check_dylib"
                /\ UNCHANGED runs
           ELSE /\ UNCHANGED steps
                /\ Finish("err", NoBackend)

\* if dylib_path.is_file() { .. } else { bail!("`rustc_codegen_spirv` build failed") }
CheckDylib ==
    /\ ipc = "check_dylib"
    /\ UNCHANGED <<installInputs, rebuild_codegen, dest_dylib, target_dylib, target_dir,
                   placeholder, install_lock, spec_dirs, skip_rebuild, toolchain_channel,
                   target_spec_dir, builds_this_run, build_status, steps, dest_partial,
                   target_partial>>
    /\ UNCHANGED <<lockVars, schedVars, toolVars, srcVars, dirVars, specVars, guardVars,
                   chanVars, walkVars>>
    /\ IF target_dylib
       THEN /\ ipc' = IF is_path(source) THEN "return" ELSE "relocate"
            /\ UNCHANGED runs
       ELSE Finish("err", NoBackend)

\* std::fs::rename(&dylib_path, &dest_dylib_path)
Relocate ==
    /\ ipc = "relocate"
    /\ UNCHANGED <<installInputs, rebuild_codegen, target_dir, placeholder, install_lock,
                   spec_dirs, skip_rebuild, toolchain_channel, target_spec_dir,
                   builds_this_run, build_status>>
    /\ UNCHANGED <<lockVars, schedVars, toolVars, srcVars, dirVars, specVars, guardVars,
                   chanVars, walkVars>>
    /\ IF target_dylib
       THEN /\ dest_dylib' = TRUE
            /\ dest_partial' = target_partial
            /\ target_dylib' = FALSE
            /\ target_partial' = FALSE
            /\ steps' = Append(steps, "relocate")
            /\ ipc' = IF clear_target THEN "clear_target" ELSE "return"
            /\ UNCHANGED runs
       ELSE /\ UNCHANGED <<dest_dylib, dest_partial, target_dylib, target_partial, steps>>
            /\ Finish("err", NoBackend)

\* std::fs::remove_dir_all(&target)
ClearTarget ==
    /\ ipc = "clear_target"
    /\ UNCHANGED <<installInputs, rebuild_codegen, dest_dylib, placeholder, install_lock,
                   spec_dirs, skip_rebuild, toolchain_channel, target_spec_dir,
                   builds_this_run, build_status, dest_partial>>
    /\ UNCHANGED <<lockVars, schedVars, toolVars, srcVars, dirVars, specVars, guardVars,
                   chanVars, walkVars>>
    /\ IF target_dir
       THEN /\ target_dir' = FALSE
            /\ target_dylib' = FALSE
            /\ target_partial' = FALSE
            /\ steps' = Append(steps, "clear_target")
            /\ ipc' = "return"
            /\ UNCHANGED runs
       ELSE /\ UNCHANGED <<target_dir, target_dylib, target_partial, steps>>
            /\ Finish("err", NoBackend)

\* Ok(InstalledBackend { .. })
InstallReturn ==
    /\ ipc = "return"
    /\ UNCHANGED <<installInputs, rebuild_codegen, dest_dylib, target_dylib, target_dir,
                   placeholder, install_lock, spec_dirs, skip_rebuild, toolchain_channel,
                   target_spec_dir, builds_this_run, build_status, steps, dest_partial,
                   target_partial>>
    /\ UNCHANGED <<lockVars, schedVars, toolVars, srcVars, dirVars, specVars, guardVars,
                   chanVars, walkVars>>
    /\ Finish("ok", [rustc_codegen_spirv_location |-> dest_dylib_path(source),
                     toolchain_channel |-> toolchain_channel,
                     target_spec_dir |-> target_spec_dir])

\* the steps of an invocation that has begun
InstallSteps ==
    \/ WriteSourceFiles
    \/ ResolveChannel
    \/ UpdateSpecFiles
    \/ EnsureToolchain
    \/ RemoveCargoLock
    \/ CompilerBuild
    \/ BuildExit
    \/ CheckDylib
    \/ Relocate
    \/ ClearTarget
    \/ InstallReturn

InstallNext ==
    \/ InstallBegin
    \/ InstallSteps

SpecInstall == InitInstall /\ [][InstallNext]_vars

(***************************************************************************)
(* C10 as stated: for every source, when neither of two successive         *)
(* invocations of Install::run sets the force-rebuild flag and both return *)
(* an InstalledBackend, they run the compiler build at most once in total  *)
(* and return equal InstalledBackends.                                     *)
(***************************************************************************)
SuccessivePairs ==
    {i \in 1..(Len(runs) - 1) :
        /\ runs[i].status = "ok" /\ runs[i + 1].status = "ok"
        /\ ~runs[i].rebuild_codegen /\ ~runs[i + 1].rebuild_codegen}

C10_IdempotentAsStated ==
    \A i \in SuccessivePairs :
        /\ runs[i].builds + runs[i + 1].builds <= 1
        /\ runs[i + 1].backend = runs[i].backend

(***************************************************************************)
(* C10 amended: for a source that is no local path the above holds, and    *)
(* the second invocation runs no compiler build at all; for a local path   *)
(* each invocation runs the compiler build, and the InstalledBackends are  *)
(* still equal.                                                            *)
(***************************************************************************)
C10_Idempotent ==
    \A i \in SuccessivePairs :
        /\ runs[i + 1].backend = runs[i].backend
        /\ IF is_path(source)
           THEN runs[i].builds = 1 /\ runs[i + 1].builds = 1
           ELSE runs[i].builds <= 1 /\ runs[i + 1].builds = 0

C10_Witness ==
    /\ Len(runs) = 2
    /\ 1 \in SuccessivePairs
    /\ source = "CratesIO"
    /\ runs[1].builds = 1
    /\ runs[2].builds = 0
    /\ runs[2].backend.rustc_codegen_spirv_location = dest_dylib_path(source)

(***************************************************************************)
(* C11: the cache probe decides a hit exactly when the source is no local  *)
(* path, the artifact file exists at its destination path and the          *)
(* force-rebuild flag is not set; a local path is a miss on every          *)
(* invocation, also when its artifact exists.  A hit skips                 *)
(* write_source_files.                                                     *)
(***************************************************************************)
ArtifactAtDestination == IF source = "Path" THEN target_dylib ELSE dest_dylib

Probed == ipc = "idle" /\ ipc' \in {"write_source_files", "resolve_channel"}

C11_CacheProbe ==
    [][Probed =>
          /\ skip_rebuild' = (source # "Path" /\ ArtifactAtDestination
                                /\ ~rebuild_codegen')
          /\ source = "Path" => ~skip_rebuild'
          /\ skip_rebuild' = (ipc' = "resolve_channel")]_vars

C11_Witness ==
    /\ source = "Path"
    /\ target_dylib
    /\ ~rebuild_codegen
    /\ ipc = "write_source_files"
    /\ ~skip_rebuild
    /\ steps = <<"resolve_source", "install_dir", "cache_probe">>

(***************************************************************************)
(* C12: on a cache hit Install::run performs none of the cache-miss        *)
(* actions: it writes no placeholder project files, provisions no          *)
(* toolchain, removes no Cargo.lock, starts no compiler build, renames no  *)
(* artifact, clears no target directory and writes no target-spec file.    *)
(***************************************************************************)
MissSteps ==
    {"write_source_files", "write_target_specs", "ensure_toolchain",
     "remove_cargo_lock", "build", "relocate", "clear_target"}

HitInProgress == ipc # "idle" /\ skip_rebuild

C12_HitDoesNothing ==
    [][HitInProgress =>
          /\ placeholder' = placeholder
          /\ install_lock => install_lock'
          /\ builds_this_run' = 0
          /\ build_status' = "none"
          /\ dest_dylib' = dest_dylib /\ dest_partial' = dest_partial
          /\ target_dylib' = target_dylib /\ target_partial' = target_partial
          /\ target_dir' = target_dir
          /\ spec_dirs' = spec_dirs
          /\ Range(steps') \cap MissSteps = {}
          /\ ipc' \notin {"write_source_files", "ensure_toolchain", "remove_cargo_lock",
                          "build", "building", "check_dylib", "relocate",
                          "clear_target"}]_vars

C12_Witness ==
    /\ Len(runs) = 1
    /\ runs[1].status = "ok"
    /\ runs[1].skip_rebuild
    /\ runs[1].steps = <<"resolve_source", "install_dir", "cache_probe",
                         "resolve_channel", "update_spec_files">>
    /\ runs[1].builds = 0

(***************************************************************************)
(* Install::run killed at any point                                        *)
(***************************************************************************)
\* the process is killed; a compiler build that was running may leave an
\* incomplete file at the artifact's path in target
Kill ==
    /\ ipc # "idle"
    /\ UNCHANGED <<installInputs, rebuild_codegen, dest_dylib, placeholder, install_lock,
                   spec_dirs, skip_rebuild, toolchain_channel, target_spec_dir,
                   builds_this_run, build_status, steps, dest_partial>>
    /\ UNCHANGED <<lockVars, schedVars, toolVars, srcVars, dirVars, specVars, guardVars,
                   chanVars, walkVars>>
    /\ \E wrote \in PartialWrites :
        /\ wrote => ipc = "building"
        /\ IF wrote
           THEN target_dir' = TRUE /\ target_dylib' = TRUE /\ target_partial' = TRUE
           ELSE UNCHANGED <<target_dir, target_dylib, target_partial>>
    /\ Finish("killed", NoBackend)

CrashNext ==
    \/ InstallNext
    \/ Kill

SpecCrash == InitInstall /\ [][CrashNext]_vars

(***************************************************************************)
(* C13: crash safety of the cache.  For a source that is no local path     *)
(* and with invocations killed at any point, the destination artifact is   *)
(* either absent or the complete output of a compiler build that exited    *)
(* successfully; it is created by the rename only; an invocation that      *)
(* finds it absent does not skip the rebuild and returns only after a      *)
(* successful build of its own.                                            *)
(***************************************************************************)
C13_CrashSafe ==
    /\ [](source # "Path" =>
            /\ dest_dylib => ~dest_partial
            /\ (ipc = "return" /\ ~skip_rebuild) =>
                  /\ builds_this_run = 1
                  /\ build_status = "success"
                  /\ dest_dylib)
    /\ [][source # "Path" =>
            /\ (dest_dylib' /\ (~dest_dylib \/ dest_partial' # dest_partial)) =>
                  /\ ipc = "relocate"
                  /\ build_status = "success"
                  /\ target_dylib /\ ~target_dylib'
            /\ (Probed /\ ~dest_dylib) => ~skip_rebuild']_vars

C13_Witness ==
    /\ source # "Path"
    /\ Len(runs) = 2
    /\ runs[1].status = "killed"
    /\ runs[1].failed_at = "building"
    /\ runs[2].status = "ok"
    /\ ~runs[2].rebuild_codegen
    /\ runs[2].builds = 1
    /\ dest_dylib /\ ~dest_partial

(***************************************************************************)
(* Two cargo-gpu processes on one cache.  The variables of Install::run    *)
(* hold the locals of the process that takes the next step; `other` holds  *)
(* those of the process that waits.  The install directory is shared.      *)
(***************************************************************************)
Locals ==
    [ipc |-> ipc, rebuild_codegen |-> rebuild_codegen, skip_rebuild |-> skip_rebuild,
     toolchain_channel |-> toolchain_channel, target_spec_dir |-> target_spec_dir,
     builds_this_run |-> builds_this_run, build_status |-> build_status,
     steps |-> steps]

\* the operating system lets the other process take the next step
Switch ==
    /\ other' = Locals
    /\ current' = 3 - current
    /\ ipc' = other.ipc
    /\ rebuild_codegen' = other.rebuild_codegen
    /\ skip_rebuild' = other.skip_rebuild
    /\ toolchain_channel' = other.toolchain_channel
    /\ target_spec_dir' = other.target_spec_dir
    /\ builds_this_run' = other.builds_this_run
    /\ build_status' = other.build_status
    /\ steps' = other.steps
    /\ UNCHANGED <<installInputs, dest_dylib, target_dylib, target_dir, placeholder,
                   install_lock, spec_dirs, dest_partial, target_partial, runs>>
    /\ UNCHANGED <<lockVars, toolVars, srcVars, dirVars, specVars, guardVars, chanVars, walkVars>>

\* each of the two processes is one invocation of Install::run
ConcurrentBegin ==
    /\ \A i \in DOMAIN runs : runs[i].proc # current
    /\ InstallBegin

InitConcurrent ==
    /\ InitInstall
    /\ source # "Path"

ConcurrentNext ==
    \/ ConcurrentBegin
    \/ InstallSteps
    \/ Switch

SpecConcurrent == InitConcurrent /\ [][ConcurrentNext]_vars

(***************************************************************************)
(* C14: when two processes run a cache-miss install for the same source    *)
(* that is no local path, under every interleaving of their steps the      *)
(* destination artifact is never an incompletely written file: it is       *)
(* absent or a complete build output, and it is put there by one rename    *)
(* of a complete file.                                                     *)
(***************************************************************************)
C14_NeverPartialArtifact ==
    /\ [](dest_dylib => ~dest_partial)
    /\ [][(dest_dylib' /\ ~dest_dylib) \/ dest_partial' # dest_partial
            => /\ ipc = "relocate" /\ ipc' \in {"clear_target", "return"}
               /\ target_dylib /\ ~target_partial
               /\ ~dest_partial']_vars

\* both processes missed, built and renamed; the second rename replaced the first
C14_Witness ==
    /\ Len(runs) = 2
    /\ runs[1].proc # runs[2].proc
    /\ \A i \in 1..2 :
        /\ runs[i].status = "ok"
        /\ ~runs[i].skip_rebuild
        /\ runs[i].builds = 1
        /\ \E k \in DOMAIN runs[i].steps : runs[i].steps[k] = "relocate"
    /\ dest_dylib /\ ~dest_partial

(***************************************************************************)
(* C15: the worst outcome of two concurrent cache-miss invocations for the *)
(* same source that is no local path is wasted work: no invocation fails   *)
(* at its removal of Cargo.lock, at its rename of the artifact or at its   *)
(* clearing of the target directory (steps that cannot fail in an          *)
(* invocation running alone), and every invocation whose own compiler      *)
(* build succeeded and yields the artifact ends successfully, with the     *)
(* artifact at the destination path.                                       *)
(***************************************************************************)
InterferenceFailures == {"remove_cargo_lock", "relocate", "clear_target"}

C15_OnlyWastedWork ==
    source # "Path" => \A i \in DOMAIN runs :
        /\ runs[i].failed_at \notin InterferenceFailures
        /\ (runs[i].build_status = "success" /\ builds_dylib)
              => runs[i].status = "ok" /\ dest_dylib

(***************************************************************************)
(* C16: if the compiler build of the backend exits with a non-zero status, *)
(* Install::run fails and neither renames an artifact into the destination *)
(* path nor clears the target directory; if the build exits successfully   *)
(* but the expected artifact file is missing from the build output,        *)
(* Install::run fails as well and returns no InstalledBackend.             *)
(***************************************************************************)
LastRun == runs[Len(runs)]

FailedHere(at) ==
    /\ ipc' = "idle"
    /\ Len(runs') = Len(runs) + 1
    /\ LastRun'.status = "err"
    /\ LastRun'.failed_at = at
    /\ LastRun'.backend = NoBackend
    /\ \A k \in DOMAIN LastRun'.steps : LastRun'.steps[k] \notin {"relocate", "clear_target"}
    /\ dest_dylib' = dest_dylib /\ dest_partial' = dest_partial
    /\ target_dir' = target_dir

C16_BuildFailure ==
    [][/\ (ipc = "building" /\ build_status' = "bad") => FailedHere("building")
       /\ (ipc = "check_dylib" /\ ~target_dylib) => FailedHere("check_dylib")]_vars

\* a build with a bad exit status followed by one that yields no artifact
C16_Witness ==
    /\ Len(runs) = 2
    /\ runs[1].failed_at = "building" /\ runs[1].build_status = "bad"
    /\ runs[2].failed_at = "check_dylib" /\ runs[2].build_status = "success"
    /\ ~dest_dylib
    /\ target_dir

(***************************************************************************)
(* C17: in every cache-miss invocation the steps run strictly in this      *)
(* order, each after the previous one has completed successfully, and a    *)
(* failure aborts all later steps: resolve source, determine install       *)
(* directory, cache probe, write placeholder project, discover toolchain   *)
(* channel, resolve target specs, provision toolchain, remove the          *)
(* placeholder's Cargo.lock, run the compiler build, relocate the          *)
(* artifact, clear the target directory.  (A local path has no Cargo.lock  *)
(* removal, relocation and clearing; without clear_target nothing is       *)
(* cleared; target specs are written unless the path's own are used.)      *)
(***************************************************************************)
StepOrder ==
    <<"resolve_source", "install_dir", "cache_probe", "write_source_files",
      "resolve_channel", "write_target_specs", "update_spec_files", "ensure_toolchain",
      "remove_cargo_lock", "build", "relocate", "clear_target">>

\* the steps a cache miss of this source with these flags is made of
StepApplies(step) ==
    CASE step \in {"remove_cargo_lock", "relocate"} -> source # "Path"
      [] step = "clear_target" -> source # "Path" /\ clear_target
      [] step = "write_target_specs" -> ~(source = "Path" /\ has_target_specs_package)
      [] OTHER -> TRUE

MissStepsInOrder == SelectSeq(StepOrder, StepApplies)

IsPrefix(p, q) == Len(p) <= Len(q) /\ SubSeq(q, 1, Len(p)) = p

\* the steps completed when Install::run is at a given position
DoneAt(at) ==
    CASE at = "write_source_files" -> 3
      [] at = "resolve_channel" -> 4
      [] at = "update_spec_files" -> 5
      [] at = "ensure_toolchain" -> 7
      [] at = "remove_cargo_lock" -> 8
      [] at \in {"build", "building"} -> 9
      [] at \in {"check_dylib", "relocate"} -> 10
      [] at = "clear_target" -> 11
      [] OTHER -> 12

C17_StepsInOrder ==
    /\ (ipc # "idle" /\ ~skip_rebuild) =>
          /\ IsPrefix(steps, MissStepsInOrder)
          /\ steps = SelectSeq(SubSeq(StepOrder, 1, DoneAt(ipc)), StepApplies)
    /\ \A i \in DOMAIN runs : ~runs[i].skip_rebuild =>
          /\ IsPrefix(runs[i].steps, MissStepsInOrder)
          /\ runs[i].status = "ok" => runs[i].steps = MissStepsInOrder
          /\ runs[i].status = "err" =>
                \/ runs[i].steps = <<>>
                \/ runs[i].steps =
                      SelectSeq(SubSeq(StepOrder, 1, DoneAt(runs[i].failed_at)), StepApplies)

\* a complete cache miss with every step, and one aborted by a failed build
C17_Witness ==
    /\ source = "Git" /\ clear_target
    /\ Len(runs) = 2
    /\ runs[1].status = "ok" /\ runs[1].steps = StepOrder
    /\ runs[2].status = "err" /\ runs[2].failed_at = "building"
    /\ runs[2].steps = SubSeq(StepOrder, 1, 9)

(***************************************************************************)
(* Build::run with the steps of the Install::run it calls                  *)
(***************************************************************************)
\* the two Cargo.lock files and rustc versions of a build of a workspace member
MemberWorkspaceStart ==
    /\ pc = "start"
    /\ \E s \in {Absent, File(Header \o <<LineV4>>, TRUE), File(Header \o <<LineV3>>, TRUE)},
          w \in {File(Header \o <<LineV4>>, TRUE), File(Header \o <<LineV3>>, TRUE)} :
        lock = [f \in Files |-> IF f = "shader" THEN s ELSE w]
    /\ ancestors = 1
    /\ lock_level = 1
    /\ orig = lock
    /\ workspace_rust_version \in {<<1, 82, 1>>, RUST_VERSION_THAT_USES_V4_CARGO_LOCKS}
    /\ shader_rust_version \in {<<1, 82, 1>>, RUST_VERSION_THAT_USES_V4_CARGO_LOCKS}
    /\ force_overwrite_lockfiles_v4_to_v3 \in BOOLEAN
    /\ cargo_toml = "member"
    /\ cargo_lock_files_with_changed_manifest_versions = <<>>
    /\ rewritten = {}
    /\ opened_for_write = [f \in Files |-> 0]
    /\ result = "none"
    /\ error = ""
    /\ exit_code = -1
    /\ build_started = FALSE

InitBuildRun ==
    /\ InstallStart
    /\ ToolIdle
    /\ SrcIdle
    /\ DirIdle
    /\ SpecIdle
    /\ GuardIdle
    /\ WalkIdle
    /\ ChanIdle
    /\ MemberWorkspaceStart
    /\ watch = FALSE

\* let installed_backend = self.install.run()?;  -- the call
BuildRunInstallBegin ==
    /\ pc = "start"
    /\ Len(runs) = 0
    /\ InstallBegin

\* mutant: the guard is constructed without waiting for Install::run
BuildRunGuardBeforeInstall ==
    /\ pc = "start"
    /\ ipc \in {"ensure_toolchain", "remove_cargo_lock"}
    /\ pc' = "new_workspace_check"
    /\ UNCHANGED <<lock, inputs, cargo_lock_files_with_changed_manifest_versions,
                   rewritten, opened_for_write, result, error, exit_code, build_started>>
    /\ UNCHANGED <<installVars, schedVars, toolVars, srcVars, dirVars, specVars, guardVars,
                   chanVars, walkVars>>

\* let installed_backend = self.install.run()?;  -- its result and the `?`
BuildRunInstallReturned ==
    /\ pc = "start"
    /\ ipc = "idle"
    /\ Len(runs) = 1
    /\ pc' = IF runs[1].status = "ok" THEN "new_workspace_check" ELSE "failed"
    /\ result' = IF runs[1].status = "ok" THEN result ELSE "err"
    /\ UNCHANGED <<lock, inputs, cargo_lock_files_with_changed_manifest_versions,
                   rewritten, opened_for_write, error, exit_code, build_started>>
    /\ UNCHANGED <<installVars, schedVars, toolVars, srcVars, dirVars, specVars, guardVars,
                   chanVars, walkVars>>

BuildRunNext ==
    \/ BuildRunInstallBegin
    \/ InstallSteps
    \/ BuildRunInstallReturned
    \/ NewWorkspaceCheck
    \/ NewShaderCheck
    \/ GuardedBuild
    \/ Drop

SpecBuildRun == InitBuildRun /\ [][BuildRunNext]_vars

(***************************************************************************)
(* Build::run in watch mode                                                *)
(***************************************************************************)
\* Command::run calls Build::run once with watch = false and, when watching,
\* once more with watch = true
InitWatch ==
    /\ InstallIdle
    /\ ToolIdle
    /\ SrcIdle
    /\ DirIdle
    /\ SpecIdle
    /\ GuardIdle
    /\ WalkIdle
    /\ ChanIdle
    /\ MemberWorkspaceStart
    /\ watch \in BOOLEAN

\* if self.build.watch { ... spirv_builder.watch(..)?.context(..)??; park() }
\* an early return or an error of watch() leaves the function; otherwise the
\* watcher's thread builds and the calling thread parks with the guard alive
WatchBuild ==
    /\ pc = "guarded"
    /\ watch
    /\ \E outcome \in {"early_return", "watch_error", "parked"} :
        /\ build_started' = (outcome # "early_return")
        /\ result' = IF outcome = "parked" THEN result ELSE "err"
        /\ pc' = IF outcome = "parked" THEN "parked" ELSE "drop"
    /\ UNCHANGED <<lock, inputs, cargo_lock_files_with_changed_manifest_versions,
                   rewritten, opened_for_write, error, exit_code>>
    /\ UNCHANGED <<installVars, schedVars, toolVars, srcVars, dirVars, specVars, guardVars,
                   chanVars, walkVars>>

\* std::thread::park() may return without an unpark; Ok(()) follows
ParkWake ==
    /\ pc = "parked"
    /\ pc' = "drop"
    /\ result' = "ok"
    /\ UNCHANGED <<lock, inputs, cargo_lock_files_with_changed_manifest_versions,
                   rewritten, opened_for_write, error, exit_code, build_started>>
    /\ UNCHANGED <<installVars, schedVars, toolVars, srcVars, dirVars, specVars, guardVars,
                   chanVars, walkVars>>

\* the process is interrupted while parked: no destructor runs
WatchInterrupted ==
    /\ pc = "parked"
    /\ pc' = "killed"
    /\ exit_code' = 130
    /\ UNCHANGED <<lock, inputs, cargo_lock_files_with_changed_manifest_versions,
                   rewritten, opened_for_write, result, error, build_started>>
    /\ UNCHANGED <<installVars, schedVars, toolVars, srcVars, dirVars, specVars, guardVars,
                   chanVars, walkVars>>

WatchNext ==
    \/ BuildInstall
    \/ NewWorkspaceCheck
    \/ NewShaderCheck
    \/ GuardedBuild
    \/ WatchBuild
    \/ ParkWake
    \/ WatchInterrupted
    \/ Drop

SpecWatch == InitWatch /\ [][WatchNext]_vars

\* Install::run is between its compiler invocation and the artifact's relocation
BackendCompiling == ipc \in {"building", "check_dylib", "relocate"}

\* Install::run was called by this Build::run and has returned Ok
InstallReturnedOk == ipc = "idle" /\ Len(runs) = 1 /\ runs[1].status = "ok"

IsStepOf(run, step) == \E i \in DOMAIN run.steps : run.steps[i] = step

\* C18 as stated: the guard is constructed after toolchain provisioning and
\* before the backend's compiler invocation, so it is held whenever that
\* invocation runs and when the artifact is relocated into the cache.
C18_GuardHeldDuringBackendBuildAsStated == BackendCompiling => GuardExists

\* C18 amended: the guard is constructed only after Install::run has returned
\* Ok, i.e. after toolchain provisioning, the backend's compiler invocation
\* and the relocation of its artifact, none of which runs under the guard;
\* what starts under the guard is the build of the shader crate.
C18_GuardAfterInstall ==
    /\ [](ipc # "idle" => pc = "start")
    /\ [](pc \in {"new_workspace_check", "new_shader_check", "guarded", "drop"} =>
            /\ InstallReturnedOk
            /\ ~runs[1].skip_rebuild =>
                    /\ IsStepOf(runs[1], "ensure_toolchain")
                    /\ IsStepOf(runs[1], "build")
                    /\ source # "Path" => IsStepOf(runs[1], "relocate"))
    /\ [][(build_started' /\ ~build_started) => (pc = "guarded" /\ InstallReturnedOk)]_vars

\* a shader build under the guard, after an installation that compiled and
\* relocated the backend
C18_Witness ==
    /\ pc = "drop"
    /\ build_started
    /\ "shader" \in rewritten
    /\ InstallReturnedOk
    /\ IsStepOf(runs[1], "relocate")

\* the build a lockfile was downgraded for has finished: Build::run is over,
\* or its thread is parked (or was interrupted there) after the watcher built
BuildFinished == build_started /\ pc \in {"done", "parked", "killed"}

\* C19: once the build it was downgraded for has finished, no Cargo.lock
\* that was at version 4 is left downgraded, in one-shot and in watch mode.
C19_NoLockfileStaysDowngraded ==
    BuildFinished => \A f \in Files : MarkerIs(orig[f], LineV4) => MarkerIs(lock[f], LineV4)

(***************************************************************************)
(* ensure_toolchain_and_components_exist, step by step                     *)
(***************************************************************************)
toolInputs == <<skip_toolchain_install_consent>>

\* what rustup may hold when the function is called: components are listed
\* for an installed toolchain only
InitToolchain ==
    /\ LockIdle
    /\ InstallIdle
    /\ SrcIdle
    /\ DirIdle
    /\ SpecIdle
    /\ GuardIdle
    /\ WalkIdle
    /\ ChanIdle
    /\ tpc = "idle"
    /\ rustup_toolchain \in BOOLEAN
    /\ rustup_components \in {c \in SUBSET required_components : c # {} => rustup_toolchain}
    /\ skip_toolchain_install_consent \in BOOLEAN
    /\ consent_for = "none"
    /\ raw_mode = FALSE
    /\ prompts = <<>>
    /\ subprocesses = <<>>
    /\ tresult = "none"

ToolReturn(r) ==
    /\ tresult' = r
    /\ tpc' = IF r = "exit0" THEN "exited" ELSE "idle"
    /\ consent_for' = "none"

\* the call
ToolBegin ==
    /\ tpc = "idle"
    /\ tresult = "none"
    /\ tpc' = "toolchain_list"
    /\ UNCHANGED <<rustup_toolchain, rustup_components, toolInputs, consent_for, raw_mode,
                   prompts, subprocesses, tresult>>
    /\ UNCHANGED <<lockVars, installVars, schedVars, srcVars, dirVars, specVars, guardVars,
                   chanVars, walkVars>>

\* rustup toolchain list, and the test of its output
ToolchainList ==
    /\ tpc = "toolchain_list"
    /\ \E ok \in BOOLEAN :
        IF ~ok
        THEN ToolReturn("err")
        ELSE IF rustup_toolchain
        THEN tpc' = "component_list" /\ UNCHANGED <<consent_for, tresult>>
        ELSE tpc' = "consent" /\ consent_for' = "toolchain" /\ UNCHANGED tresult
    /\ UNCHANGED <<rustup_toolchain, rustup_components, toolInputs, raw_mode, prompts,
                   subprocesses>>
    /\ UNCHANGED <<lockVars, installVars, schedVars, srcVars, dirVars, specVars, guardVars,
                   chanVars, walkVars>>

\* the position after a granted consent request
AfterConsent(for) == IF for = "toolchain" THEN "toolchain_add" ELSE "component_add"

\* the event get_consent_for_toolchain_install decides on, after one re-read
\* when the first event is the release of Enter
DecidingEvents(first) == IF IsEnterRelease(first) THEN Events ELSE {first}

\* get_consent_for_toolchain_install
GetConsent ==
    /\ tpc = "consent"
    /\ IF skip_toolchain_install_consent
       THEN /\ tpc' = AfterConsent(consent_for)
            /\ UNCHANGED <<consent_for, raw_mode, prompts, tresult>>
       ELSE \E outcome \in {"enable_failed", "read_failed", "reread_failed",
                             "disable_failed", "read"} :
              \E first \in Events : \E input \in DecidingEvents(first) :
                CASE outcome = "enable_failed" ->
                        /\ first = "resize" /\ input = first
                        /\ ToolReturn("err")
                        /\ UNCHANGED <<raw_mode, prompts>>
                  [] outcome = "read_failed" ->
                        /\ first = "resize" /\ input = first
                        /\ raw_mode' = TRUE
                        /\ prompts' = Append(prompts, [for |-> consent_for, answer |-> "none"])
                        /\ ToolReturn("err")
                  [] outcome = "reread_failed" ->
                        /\ IsEnterRelease(first) /\ input = first
                        /\ raw_mode' = TRUE
                        /\ prompts' = Append(prompts, [for |-> consent_for, answer |-> "none"])
                        /\ ToolReturn("err")
                  [] outcome = "disable_failed" ->
                        /\ raw_mode' = TRUE
                        /\ prompts' = Append(prompts, [for |-> consent_for, answer |-> input])
                        /\ ToolReturn("err")
                  [] outcome = "read" ->
                        /\ raw_mode' = FALSE
                        /\ prompts' = Append(prompts, [for |-> consent_for, answer |-> input])
                        /\ IF IsCharY(input)
                           THEN /\ tpc' = AfterConsent(consent_for)
                                /\ UNCHANGED <<consent_for, tresult>>
                           ELSE ToolReturn("exit0")
    /\ exit_code' = IF tresult' = "exit0" THEN 0 ELSE exit_code
    /\ UNCHANGED <<rustup_toolchain, rustup_components, toolInputs, subprocesses>>
    /\ UNCHANGED <<pc, lock, inputs, cargo_lock_files_with_changed_manifest_versions,
                   rewritten, opened_for_write, result, error, build_started>>
    /\ UNCHANGED <<installVars, schedVars, srcVars, dirVars, specVars, guardVars, chanVars,
                   walkVars>>

\* rustup toolchain add <channel>
ToolchainAdd ==
    /\ tpc = "toolchain_add"
    /\ \E outcome \in {"spawn_failed", "bad_status", "success"} :
        /\ subprocesses' = IF outcome = "spawn_failed" THEN subprocesses
                           ELSE Append(subprocesses, "toolchain")
        /\ IF outcome = "success"
           THEN /\ rustup_toolchain' = TRUE
                /\ rustup_components' \in SUBSET required_components
                /\ tpc' = "component_list"
                /\ UNCHANGED <<consent_for, tresult>>
           ELSE /\ ToolReturn("err")
                /\ UNCHANGED <<rustup_toolchain, rustup_components>>
    /\ UNCHANGED <<toolInputs, raw_mode, prompts>>
    /\ UNCHANGED <<lockVars, installVars, schedVars, srcVars, dirVars, specVars, guardVars,
                   chanVars, walkVars>>

\* mutant: a fourth component is required
all_components_installed_with_extra(installed) ==
    (required_components \cup {"rust-analyzer"}) \subseteq installed

\* required_components.iter().all(|component| installed_components.iter().any(..))
all_components_installed(installed) == required_components \subseteq installed

\* rustup component list --toolchain <channel>, and the test of its output
ComponentList ==
    /\ tpc = "component_list"
    /\ \E ok \in BOOLEAN :
        IF ~ok
        THEN ToolReturn("err")
        ELSE IF all_components_installed(rustup_components)
        THEN ToolReturn("ok")
        ELSE tpc' = "consent" /\ consent_for' = "components" /\ UNCHANGED tresult
    /\ UNCHANGED <<rustup_toolchain, rustup_components, toolInputs, raw_mode, prompts,
                   subprocesses>>
    /\ UNCHANGED <<lockVars, installVars, schedVars, srcVars, dirVars, specVars, guardVars,
                   chanVars, walkVars>>

\* rustup component add --toolchain <channel> rust-src rustc-dev llvm-tools
ComponentAdd ==
    /\ tpc = "component_add"
    /\ \E outcome \in {"spawn_failed", "bad_status", "success"} :
        /\ subprocesses' = IF outcome = "spawn_failed" THEN subprocesses
                           ELSE Append(subprocesses, "components")
        /\ rustup_components' = IF outcome = "success" THEN required_components
                                ELSE rustup_components
        /\ ToolReturn(IF outcome = "success" THEN "ok" ELSE "err")
    /\ UNCHANGED <<rustup_toolchain, toolInputs, raw_mode, prompts>>
    /\ UNCHANGED <<lockVars, installVars, schedVars, srcVars, dirVars, specVars, guardVars,
                   chanVars, walkVars>>

ToolNext ==
    \/ ToolBegin
    \/ ToolchainList
    \/ GetConsent
    \/ ToolchainAdd
    \/ ComponentList
    \/ ComponentAdd

SpecToolchain == InitToolchain /\ [][ToolNext]_vars

\* the consent prompt issued for an installation was answered with the key y
Affirmed(kind) == \E j \in DOMAIN prompts : prompts[j].for = kind /\ prompts[j].answer \in {"y_press", "y_release"}

PromptsFor(kind) == {j \in DOMAIN prompts : prompts[j].for = kind}

\* C20: a toolchain or component installation subprocess is started only if
\* the skip-consent flag is set or the prompt issued for that installation
\* was answered affirmatively; each of the two installations has its own
\* consent request, and with the flag set no prompt is issued.
C20_ConsentGatesInstallation ==
    /\ \A i \in DOMAIN subprocesses :
            skip_toolchain_install_consent \/ Affirmed(subprocesses[i])
    /\ tpc \in {"toolchain_add", "component_add"} =>
            skip_toolchain_install_consent \/ Affirmed(consent_for)
    /\ \A kind \in {"toolchain", "components"} : Cardinality(PromptsFor(kind)) <= 1
    /\ skip_toolchain_install_consent => prompts = <<>>

\* both installations ran, each after its own affirmative answer
C20_Witness ==
    /\ ~skip_toolchain_install_consent
    /\ subprocesses = <<"toolchain", "components">>
    /\ Len(prompts) = 2
    /\ tresult = "ok"

(***************************************************************************)
(* Install::run with the steps of ensure_toolchain_and_components_exist    *)
(***************************************************************************)
\* one invocation, on any cache and any state of rustup
InitInstallToolchain ==
    /\ LockIdle
    /\ InstallStart
    /\ SrcIdle
    /\ DirIdle
    /\ SpecIdle
    /\ GuardIdle
    /\ WalkIdle
    /\ ChanIdle
    /\ tpc = "idle"
    /\ rustup_toolchain \in BOOLEAN
    /\ rustup_components \in {c \in SUBSET required_components : c # {} => rustup_toolchain}
    /\ skip_toolchain_install_consent \in BOOLEAN
    /\ consent_for = "none"
    /\ raw_mode = FALSE
    /\ prompts = <<>>
    /\ subprocesses = <<>>
    /\ tresult = "none"

InstallOnce ==
    /\ Len(runs) = 0
    /\ InstallBegin

\* crate::install_toolchain::ensure_toolchain_and_components_exist(..)  -- the call
EnsureToolchainCall ==
    /\ ipc = "ensure_toolchain"
    /\ ToolBegin

\* mutant: the caller goes on after the consent request ended the process
EnsureToolchainReturnedAfterExit ==
    /\ ipc = "ensure_toolchain"
    /\ tpc \in {"idle", "exited"}
    /\ tresult \in {"ok", "err", "exit0"}
    /\ tresult' = "none"
    /\ UNCHANGED <<tpc, rustup_toolchain, rustup_components, toolInputs, consent_for,
                   raw_mode, prompts, subprocesses>>
    /\ UNCHANGED <<installInputs, rebuild_codegen, dest_dylib, target_dylib, target_dir,
                   placeholder, install_lock, spec_dirs, skip_rebuild, toolchain_channel,
                   target_spec_dir, builds_this_run, build_status, dest_partial,
                   target_partial>>
    /\ UNCHANGED <<lockVars, schedVars, srcVars, dirVars, specVars, guardVars, chanVars, walkVars>>
    /\ IF tresult # "err"
       THEN /\ steps' = Append(steps, "ensure_toolchain")
            /\ ipc' = "remove_cargo_lock"
            /\ UNCHANGED runs
       ELSE /\ UNCHANGED steps
            /\ Finish("err", NoBackend)

\* .context("ensuring toolchain and components exist")?  -- its result and the `?`
EnsureToolchainReturned ==
    /\ ipc = "ensure_toolchain"
    /\ tpc = "idle"
    /\ tresult \in {"ok", "err"}
    /\ tresult' = "none"
    /\ UNCHANGED <<tpc, rustup_toolchain, rustup_components, toolInputs, consent_for,
                   raw_mode, prompts, subprocesses>>
    /\ UNCHANGED <<installInputs, rebuild_codegen, dest_dylib, target_dylib, target_dir,
                   placeholder, install_lock, spec_dirs, skip_rebuild, toolchain_channel,
                   target_spec_dir, builds_this_run, build_status, dest_partial,
                   target_partial>>
    /\ UNCHANGED <<lockVars, schedVars, srcVars, dirVars, specVars, guardVars, chanVars, walkVars>>
    /\ IF tresult = "ok"
       THEN /\ steps' = Append(steps, "ensure_toolchain")
            /\ ipc' = "remove_cargo_lock"
            /\ UNCHANGED runs
       ELSE /\ UNCHANGED steps
            /\ Finish("err", NoBackend)

InstallToolchainNext ==
    \/ InstallOnce
    \/ WriteSourceFiles
    \/ ResolveChannel
    \/ UpdateSpecFiles
    \/ EnsureToolchainCall
    \/ ToolchainList
    \/ GetConsent
    \/ ToolchainAdd
    \/ ComponentList
    \/ ComponentAdd
    \/ EnsureToolchainReturned
    \/ RemoveCargoLock
    \/ CompilerBuild
    \/ BuildExit
    \/ CheckDylib
    \/ Relocate
    \/ ClearTarget
    \/ InstallReturn

SpecInstallToolchain == InitInstallToolchain /\ [][InstallToolchainNext]_vars

\* the toolchain and the three components were installed before the run
AlreadyProvisioned ==
    /\ rustup_toolchain
    /\ rustup_components = required_components
    /\ subprocesses = <<>>

\* C21: with force-rebuild set, a registry source and the toolchain and its
\* three components already installed, Install::run issues no consent prompt,
\* whatever the skip-consent flag, and the InstalledBackend it returns names
\* an artifact that exists on disk and the channel of the backend's build script.
C21_ForcedRegistryInstall ==
    (rebuild_codegen /\ source = "CratesIO" /\ AlreadyProvisioned) =>
        /\ prompts = <<>>
        /\ tpc \notin {"consent", "toolchain_add", "component_add", "exited"}
        /\ \A i \in DOMAIN runs : runs[i].status = "ok" =>
              /\ runs[i].backend.rustc_codegen_spirv_location = dest_dylib_path(source)
              /\ dest_dylib /\ ~dest_partial
              /\ runs[i].backend.toolchain_channel = ChannelOf(source)

\* such a run compiled the backend and returned Ok, without the skip flag
C21_Witness ==
    /\ rebuild_codegen /\ source = "CratesIO" /\ AlreadyProvisioned
    /\ ~skip_toolchain_install_consent
    /\ Len(runs) = 1
    /\ runs[1].status = "ok"
    /\ runs[1].builds = 1

\* the consent request read an event that is not the key y and restored the terminal
Declined ==
    /\ prompts # <<>>
    /\ prompts[Len(prompts)].answer \notin {"none", "y_press", "y_release"}
    /\ ~raw_mode

MaxRev == 10

UrlTexts == {<<"u">>, <<"u", "/", "v">>}

\* a revision of MaxRev characters: a, b, a, b, ..
LongRev == [i \in 1..MaxRev |-> IF i % 2 = 1 THEN "a" ELSE "b"]

RevTexts == {<<>>, <<"a">>, LongRev}

QueryTexts == {<<>>, <<"r", "e", "v", "=", "a">>}

VersionTexts ==
    {<<"0", ".", "9", ".", "0">>, <<"1", ".", "1", "0", ".", "2">>, <<"a", "b", "c">>,
     <<"0", "1", ".", "0", ".", "0">>, <<"1", ".", "2">>}

\* provenances that start with git+, well formed or not
GitReprs ==
    {GitPrefix \o u \o q1 \o q \o h1 \o r :
        u \in UrlTexts, q1 \in {<<>>, <<"?">>}, q \in QueryTexts,
        h1 \in {<<>>, <<"#">>}, r \in RevTexts}
    \cup {GitPrefix \o u \o <<"#">> \o r \o <<"?">> \o q :
            u \in UrlTexts, r \in {<<"a">>}, q \in QueryTexts}

OtherRegistryRepr == <<"registry+https://example.org/index">>

ManifestPaths ==
    {<<"home", "rust-gpu", "crates", "spirv-std", "Cargo.toml">>,
     <<"crates", "spirv-std", "Cargo.toml">>,
     <<"spirv-std", "Cargo.toml">>,
     <<"Cargo.toml">>}

RegistryManifest == <<"registry", "spirv-std-0.9.0", "Cargo.toml">>

SpirvStdPackages ==
    {[name |-> "spirv-std", version |-> <<0, 9, 0>>, source |-> None, manifest_path |-> m] :
        m \in ManifestPaths}
    \cup {[name |-> "spirv-std", version |-> <<0, 9, 0>>, source |-> Some(repr),
           manifest_path |-> RegistryManifest] :
            repr \in GitReprs \cup {CratesIoRepr, OtherRegistryRepr}}

OtherPackage ==
    [name |-> "glam", version |-> <<0, 30, 1>>, source |-> Some(CratesIoRepr),
     manifest_path |-> <<"registry", "glam-0.30.1", "Cargo.toml">>]

PackageLists ==
    {<<>>, <<OtherPackage>>}
    \cup {<<pkg>> : pkg \in SpirvStdPackages}
    \cup {<<OtherPackage, pkg>> : pkg \in SpirvStdPackages}

InitSource ==
    /\ LockIdle
    /\ InstallIdle
    /\ DirIdle
    /\ SpecIdle
    /\ GuardIdle
    /\ WalkIdle
    /\ ChanIdle
    /\ ToolIdle
    /\ maybe_rust_gpu_source \in {None} \cup {Some(u) : u \in {<<"u">>}}
    /\ maybe_rust_gpu_version \in {None} \cup {Some(v) : v \in VersionTexts}
    /\ metadata \in {None} \cup {Some(l) : l \in PackageLists}
    /\ root_is_dir \in BOOLEAN
    /\ resolution = None

\* let source = SpirvSource::new(&self.shader_crate, source override, version override)
SpirvSourceNew ==
    /\ ~resolution.some
    /\ resolution' = Some(SpirvSource_new(maybe_rust_gpu_source, maybe_rust_gpu_version,
                                          metadata, root_is_dir))
    /\ UNCHANGED <<maybe_rust_gpu_source, maybe_rust_gpu_version, metadata, root_is_dir>>
    /\ UNCHANGED <<lockVars, installVars, schedVars, toolVars, dirVars, specVars, guardVars,
                   chanVars, walkVars>>

SpecSource == InitSource /\ [][SpirvSourceNew]_vars

\* C23: with a version and a url override the source is Git{url, rev = version};
\* with a version override alone it is CratesIO of the version the text
\* denotes, or an error when the text is no version; in both cases the
\* project is not inspected. With neither override the source is the one
\* obtained by inspecting the project's dependency on spirv-std.
C23_OverrideResolution ==
    resolution.some =>
        LET r == resolution.val
            url == maybe_rust_gpu_source
            version == maybe_rust_gpu_version
        IN  /\ (version.some /\ url.some) =>
                    /\ r.result = Ok([kind |-> "Git", url |-> url.val, rev |-> version.val])
                    /\ ~r.inspected
            /\ (version.some /\ ~url.some) =>
                    /\ ~r.inspected
                    /\ r.result.status = "ok" =>
                            /\ r.result.val.kind = "CratesIO"
                            /\ Version_fmt(r.result.val.version) = version.val
                    /\ r.result.status = "err" <=>
                            version.val \in {<<"a", "b", "c">>, <<"0", "1", ".", "0", ".", "0">>,
                                             <<"1", ".", "2">>}
            /\ (~version.some /\ ~url.some) =>
                    /\ r.inspected
                    /\ r.result = get_rust_gpu_deps_from_shader(metadata, root_is_dir)

\* a version override alone wins over a project that depends on a Git source
C23_Witness ==
    /\ resolution.some
    /\ maybe_rust_gpu_version = Some(<<"1", ".", "1", "0", ".", "2">>)
    /\ ~maybe_rust_gpu_source.some
    /\ resolution.val.result = Ok([kind |-> "CratesIO", version |-> <<1, 10, 2>>])
    /\ get_rust_gpu_deps_from_shader(metadata, root_is_dir).status = "ok"
    /\ get_rust_gpu_deps_from_shader(metadata, root_is_dir).val.kind = "Git"

\* the project was inspected and its metadata holds a spirv-std package
InspectedPackage ==
    /\ resolution.some
    /\ resolution.val.inspected
    /\ metadata.some
    /\ find_package(metadata.val, "spirv-std").status = "ok"

\* C24: the provenance of the spirv-std package is classified as follows.
\* The crates.io registry: CratesIO(package version). A text
\* git+<url>?<query>#<rev>: Git with the url between git+ and ? and the
\* whole text after # as rev. No provenance: Path whose root is the
\* directory three levels above the package manifest, with the package version.
C24_ProvenanceClassification ==
    InspectedPackage =>
        LET package == find_package(metadata.val, "spirv-std").val
            returned == resolution.val.result
        IN  /\ package.source = Some(CratesIoRepr) =>
                    returned = Ok([kind |-> "CratesIO", version |-> package.version])
            /\ \A url \in UrlTexts, query \in QueryTexts, rev \in RevTexts :
                    package.source = Some(GitPrefix \o url \o <<"?">> \o query \o <<"#">> \o rev) =>
                        /\ returned = Ok([kind |-> "Git", url |-> url, rev |-> rev])
                        /\ Len(returned.val.rev) = Len(rev)
            /\ (~package.source.some /\ Len(package.manifest_path) >= 3 /\ root_is_dir) =>
                    returned = Ok([kind |-> "Path",
                                 rust_gpu_repo_root |->
                                     SubSeq(package.manifest_path, 1,
                                            Len(package.manifest_path) - 3),
                                 version |-> package.version])

\* a Git provenance whose revision is longer than the 8 characters of a directory name
C24_Witness ==
    /\ InspectedPackage
    /\ resolution.val.result = Ok([kind |-> "Git", url |-> <<"u", "/", "v">>, rev |-> LongRev])
    /\ Len(LongRev) > 8

(***************************************************************************)
(* Install::run with the SpirvSource::new it calls                         *)
(***************************************************************************)
\* the kind of source the install steps work on: the resolved one
KindOf(r) == IF r.result.status = "ok" THEN r.result.val.kind ELSE "Git"

InitInstallResolve ==
    /\ LockIdle
    /\ InstallStart
    /\ DirIdle
    /\ SpecIdle
    /\ GuardIdle
    /\ WalkIdle
    /\ ChanIdle
    /\ ToolIdle
    /\ maybe_rust_gpu_source = None
    /\ maybe_rust_gpu_version \in {None, Some(<<"0", ".", "9", ".", "0">>)}
    /\ metadata \in {None} \cup {Some(l) : l \in {p \in PackageLists : Len(p) <= 1}}
    /\ root_is_dir \in BOOLEAN
    /\ resolution = None
    /\ source = KindOf(SpirvSource_new(maybe_rust_gpu_source, maybe_rust_gpu_version,
                                        metadata, root_is_dir))

\* let source = SpirvSource::new(..)?; and the statements up to the cache probe
InstallBeginResolving ==
    /\ ~resolution.some
    /\ LET r == SpirvSource_new(maybe_rust_gpu_source, maybe_rust_gpu_version,
                                metadata, root_is_dir)
       IN  /\ resolution' = Some(r)
           /\ \E flag \in BOOLEAN : BeginWith(flag, r.result.status = "ok")
    /\ UNCHANGED <<maybe_rust_gpu_source, maybe_rust_gpu_version, metadata, root_is_dir>>

InstallResolveNext ==
    \/ InstallBeginResolving
    \/ InstallSteps

SpecInstallResolve == InitInstallResolve /\ [][InstallResolveNext]_vars

\* the project is inspected and one of the three failures is present
ResolutionMustFail ==
    /\ ~maybe_rust_gpu_version.some
    /\ metadata.some
    /\ LET named == {i \in DOMAIN metadata.val : metadata.val[i].name = "spirv-std"}
       IN  \/ named = {}
           \/ \E i \in named :
                LET package == metadata.val[i]
                IN  \/ /\ package.source.some
                       /\ package.source.val # CratesIoRepr
                       /\ ~starts_with(package.source.val, GitPrefix)
                    \/ /\ ~package.source.some
                       /\ Len(package.manifest_path) < 3 \/ ~root_is_dir

\* C25: when the project is inspected and has no spirv-std package, or the
\* package's provenance is neither the registry nor a git+ text, or it has no
\* provenance and the directory three levels above its manifest does not
\* exist, SpirvSource::new returns an error, Install::run returns it, and
\* no step of the installation runs.
C25_ResolutionFailureStopsInstall ==
    /\ []((ResolutionMustFail /\ resolution.some) =>
            /\ resolution.val.inspected
            /\ resolution.val.result.status = "err"
            /\ ipc = "idle"
            /\ Len(runs) = 1
            /\ runs[1].status = "err" /\ runs[1].steps = <<>> /\ runs[1].builds = 0)
    /\ [][(ResolutionMustFail /\ resolution.some) => UNCHANGED installVars]_vars

\* the project does not depend on spirv-std and Install::run has returned the error
C25_Witness ==
    /\ resolution.some
    /\ metadata = Some(<<OtherPackage>>)
    /\ Len(runs) = 1
    /\ runs[1].status = "err"

(***************************************************************************)
(* SpirvSource::install_dir called at several points of a run              *)
(***************************************************************************)
\* calls of install_dir in one behaviour
MaxCalls == 2

Threads == {1, 2}

\* the source of the shader crate template
TemplateUrl ==
    <<"h", "t", "t", "p", "s", ":", "/", "/", "g", "i", "t", "h", "u", "b", ".", "c",
    "o", "m", "/", "R", "u", "s", "t", "-", "G", "P", "U", "/", "r", "u", "s", "t", "-",
    "g", "p", "u">>
TemplateRev ==
    <<"8", "6", "f", "c", "4", "8", "0", "3", "2", "c", "4", "c", "d", "4", "a", "f",
    "b", "7", "4", "f", "1", "d", "8", "1", "a", "e", "8", "5", "9", "7", "1", "1", "d",
    "2", "0", "3", "8", "6", "a", "1">>
TemplateDirName ==
    <<"h", "t", "t", "p", "s", "_", "_", "_", "g", "i", "t", "h", "u", "b", "_", "c",
    "o", "m", "_", "R", "u", "s", "t", "-", "G", "P", "U", "_", "r", "u", "s", "t", "-",
    "g", "p", "u", "+", "8", "6", "f", "c", "4", "8", "0", "3">>

\* a url with every character to_dirname treats specially
OddUrl ==
    <<"a", ":", "\\", "@", "=", "{", "}", " ", "\n", "\"", "'", ".", "/", "b">>

SourceValues ==
    {CratesIO(<<0, 9, 0>>), CratesIO(<<1, 10, 2>>),
     Git(TemplateUrl, TemplateRev), Git(<<"u", "/", "v">>, LongRev),
     Git(OddUrl, <<"a">>), Git(<<"u">>, <<"1", "2", "3", "4", "5", "6", "7", "é", "9">>),
     Path(<<"home", "rust-gpu">>, <<0, 9, 0>>), Path(<<>>, <<0, 9, 0>>)}

InitInstallDir ==
    /\ LockIdle
    /\ InstallIdle
    /\ ToolIdle
    /\ SrcIdle
    /\ SpecIdle
    /\ GuardIdle
    /\ WalkIdle
    /\ ChanIdle
    /\ home \in {None, Some(<<"home", "user", ".cache">>)}
    /\ cfg_test \in BOOLEAN
    /\ thread \in Threads
    /\ calls = <<>>
    /\ artifacts = {}

\* source.install_dir(), from Install::run, Show or a test
InstallDirCall ==
    /\ Len(calls) < MaxCalls
    /\ \E src \in SourceValues :
        calls' = Append(calls, [source |-> src, thread |-> thread, installed |-> dest_dylib,
                                result |-> SpirvSource_install_dir(src, home, cfg_test, thread),
                                run |-> FALSE, rebuild_codegen |-> FALSE,
                                skip_rebuild |-> FALSE, built |-> FALSE])
    /\ UNCHANGED <<home, cfg_test, thread, artifacts>>
    /\ UNCHANGED <<lockVars, installVars, schedVars, toolVars, srcVars, specVars, guardVars,
                   chanVars, walkVars>>

\* another thread of the process calls next: a test of the test harness, or
\* the callback of the watcher
ThreadSwitch ==
    /\ \E t \in Threads \ {thread} : thread' = t
    /\ UNCHANGED <<home, cfg_test, calls, artifacts>>
    /\ UNCHANGED <<lockVars, installVars, schedVars, toolVars, srcVars, specVars, guardVars,
                   chanVars, walkVars>>

\* the cache changes between two calls: an artifact is installed or removed
CacheChanges ==
    /\ dest_dylib' = ~dest_dylib
    /\ UNCHANGED <<ipc, source, rebuild_codegen, clear_target, has_target_specs_package,
                   target_specs_src_is_dir, builds_dylib, target_dylib, target_dir,
                   placeholder, install_lock, spec_dirs, skip_rebuild, toolchain_channel,
                   target_spec_dir, builds_this_run, build_status, steps, dest_partial,
                   target_partial, runs>>
    /\ UNCHANGED <<lockVars, schedVars, toolVars, srcVars, dirVars, specVars, guardVars,
                   chanVars, walkVars>>

InstallDirNext ==
    \/ InstallDirCall
    \/ ThreadSwitch
    \/ CacheChanges

SpecInstallDir == InitInstallDir /\ [][InstallDirNext]_vars

\* for a Path source install_dir returns the repository root itself
PathIsRoot ==
    \A i \in DOMAIN calls :
        calls[i].source.kind = "Path" =>
            calls[i].result = Ok(calls[i].source.rust_gpu_repo_root)

\* C26 as stated: install_dir is a function of the source alone; two calls
\* with equal sources, at any point of any run and in any state of the
\* filesystem, return the same path; for a Path source it is the root.
C26_InstallDirOfSourceAloneAsStated ==
    /\ \A i, j \in DOMAIN calls :
            calls[i].source = calls[j].source => calls[i].result = calls[j].result
    /\ PathIsRoot

\* C26 amended: two calls with equal sources return the same result in any
\* state of the filesystem, provided that, in a test build, they are made on
\* the same thread; for a Path source the result is the root in every build.
C26_InstallDirDeterministic ==
    /\ \A i, j \in DOMAIN calls :
            (calls[i].source = calls[j].source /\ (cfg_test => calls[i].thread = calls[j].thread))
                => calls[i].result = calls[j].result
    /\ PathIsRoot

\* two calls for one Git source, on two threads, before and after the
\* artifact was installed
C26_Witness ==
    /\ ~cfg_test
    /\ Len(calls) = 2
    /\ calls[1].source = calls[2].source
    /\ calls[1].source.kind = "Git"
    /\ calls[1].thread # calls[2].thread
    /\ calls[1].installed # calls[2].installed
    /\ calls[1].result.status = "ok"

\* a text with each of / \ . : @ = replaced by _ and each of { } " ' space
\* and newline left out
Sanitized(text) ==
    LET Kept(c) == c \notin {"{", "}", "\"", "'", " ", "\n"}
        kept == SelectSeq(text, Kept)
    IN  [i \in DOMAIN kept |->
            IF kept[i] \in {"/", "\\", ".", ":", "@", "="} THEN "_" ELSE kept[i]]

\* C27: for every registry or Git source the install directory is a direct
\* child of <cache-root>/codegen; its name is the rendering of the source,
\* sanitized, and holds no path separator; for the Git source of the shader
\* crate template it is https___github_com_Rust-GPU_rust-gpu+86fc4803.
C27_InstallDirName ==
    \A i \in DOMAIN calls :
        (calls[i].source.kind \in {"CratesIO", "Git"} /\ calls[i].result.status = "ok") =>
            LET dir == calls[i].result.val
                name == dir[Len(dir)]
                root == cache_dir(home, cfg_test, calls[i].thread)
            IN  /\ root.status = "ok"
                /\ SubSeq(dir, 1, Len(dir) - 2) = root.val
                /\ dir[Len(dir) - 1] = "codegen"
                /\ name = Sanitized(SpirvSource_fmt(calls[i].source))
                /\ \A k \in DOMAIN name : name[k] \notin {"/", "\\"}
                /\ name # <<>>
                /\ calls[i].source = Git(TemplateUrl, TemplateRev) => name = TemplateDirName

\* the template's source and a url full of special characters were both named
C27_Witness ==
    /\ Len(calls) = 2
    /\ calls[1].source = Git(TemplateUrl, TemplateRev)
    /\ calls[1].result.status = "ok"
    /\ calls[1].result.val[Len(calls[1].result.val)] = TemplateDirName
    /\ calls[2].source = Git(OddUrl, <<"a">>)
    /\ calls[2].result.status = "ok"


(***************************************************************************)
(* Target-spec resolution: update_target_specs_files, called by Show, and  *)
(* Install::update_spec_files, called by Install::run                      *)
(***************************************************************************)
\* resolutions of one behaviour
MaxResolutions == 2

\* the directories a resolution may return and write
SpecDirs == {target_specs_dst(s) : s \in Sources} \cup {LegacyShared}

\* what an earlier installation left: a copy of another version of the
\* companion's files, or the legacy bundle
OldCopy == [n \in SpecNames |-> IF n = "v1.json" THEN "old" ELSE "absent"]
LegacyBundle == write_legacy_target_specs(None).val

InitTargetSpecs ==
    /\ LockIdle
    /\ InstallStart
    /\ ToolIdle
    /\ SrcIdle
    /\ DirIdle
    /\ GuardIdle
    /\ WalkIdle
    /\ ChanIdle
    /\ clear_target
    /\ builds_dylib
    /\ companion_entries \in [CompanionNames -> {"absent", "file", "dir"}]
    /\ \A n \in CompanionNames :
        /\ companion_entries[n] = "dir" => n = "sub"
        /\ companion_entries[n] = "file" => n # "sub"
        /\ ~target_specs_src_is_dir => companion_entries[n] = "absent"
    /\ spec_files \in [SpecDirs -> {None, Some(OldCopy), Some(LegacyBundle)}]
    /\ \A d \in SpecDirs :
        /\ d \notin {target_specs_dst(source), LegacyShared} => spec_files[d] = None
        /\ d = target_specs_dst(source) =>
            IF is_path(source) THEN spec_files[d] = None
            ELSE dest_dylib => spec_files[d].some
        /\ d = LegacyShared => spec_files[d] # Some(OldCopy)
    /\ resolutions = <<>>

\* a call of a resolution function that returned r
Resolve(fn, permitted, r) ==
    /\ Len(resolutions) < MaxResolutions
    /\ spec_files' = IF r.status = "ok"
                     THEN WriteSpecs(r, has_target_specs_package, companion_entries, spec_files)
                     ELSE spec_files
    /\ resolutions' = Append(resolutions,
                             [fn |-> fn, permitted |-> permitted, status |-> r.status,
                              dir |-> r.dir, before |-> spec_files, after |-> spec_files'])
    /\ UNCHANGED companion_entries
    /\ UNCHANGED <<lockVars, installVars, schedVars, toolVars, srcVars, dirVars, guardVars,
                   chanVars, walkVars>>

\* install_dir.is_dir() of Show: a local checkout, or a cache directory an
\* installation created
InstallDirIsDir == is_path(source) \/ placeholder \/ spec_files[target_specs_dst(source)].some

\* Show::available_spirv_targets_iter up to the resolution; the rest reads only
ShowTargets ==
    IF ~InstallDirIsDir
    THEN Resolve("show", FALSE, [status |-> "err", dir |-> <<>>, wrote |-> {}])
    ELSE Resolve("show", FALSE,
                 update_target_specs_files(source, has_target_specs_package,
                                           target_specs_src_is_dir, FALSE))

\* update_target_specs_files(source, dummy_metadata, update_files)
UpdateTargetSpecsFilesCall ==
    \E update_files \in BOOLEAN :
        Resolve("update_target_specs_files", update_files,
                update_target_specs_files(source, has_target_specs_package,
                                          target_specs_src_is_dir, update_files))

\* self.update_spec_files(&source, &install_dir, &dummy_metadata, skip_rebuild),
\* with the skip_rebuild Install::run computes for a force-rebuild flag
InstallUpdateSpecFiles ==
    \E flag \in BOOLEAN :
        LET skip == skip_rebuild_decision(source, DestIsFile, flag)
        IN  Resolve("update_spec_files", ~skip,
                    update_spec_files(source, skip, has_target_specs_package,
                                      target_specs_src_is_dir))

TargetSpecsNext ==
    \/ ShowTargets
    \/ UpdateTargetSpecsFilesCall
    \/ InstallUpdateSpecFiles

SpecTargetSpecs == InitTargetSpecs /\ [][TargetSpecsNext]_vars

\* every file of the companion's directory is in d with the companion's content
Copied(files, d) ==
    /\ files[d].some
    /\ \A n \in CompanionNames : companion_entries[n] = "file" => files[d].val[n] = "companion"

\* every file of the legacy bundle is in d
Bundled(files, d) ==
    /\ files[d].some
    /\ \A n \in LegacyNames : files[d].val[n] = "legacy"

\* C28: a resolution that returns a directory returns, by branch: companion
\* present and local path: the companion's own target-specs directory, and
\* nothing is copied; companion present and another source: target-specs
\* below the install directory, holding every file of the companion's
\* directory when writing was permitted; companion absent and local path: the
\* shared legacy directory of the cache; companion absent and another source:
\* target-specs below the install directory; in the last two the legacy
\* bundle is there when writing was permitted.
C28_ResolutionByBranch ==
    \A i \in DOMAIN resolutions :
        LET r == resolutions[i]
            dst == target_specs_dst(source)
        IN  (r.status = "ok") =>
                /\ (has_target_specs_package /\ is_path(source)) =>
                        r.dir = CompanionDir /\ r.after = r.before
                /\ (has_target_specs_package /\ ~is_path(source)) =>
                        r.dir = dst /\ (r.permitted => Copied(r.after, dst))
                /\ (~has_target_specs_package /\ is_path(source)) =>
                        r.dir = LegacyShared /\ (r.permitted => Bundled(r.after, LegacyShared))
                /\ (~has_target_specs_package /\ ~is_path(source)) =>
                        r.dir = dst /\ (r.permitted => Bundled(r.after, dst))

\* a permitted resolution copied the companion's file over an older copy, and
\* left the companion's subdirectory behind
C28_Witness ==
    \E i \in DOMAIN resolutions :
        LET r == resolutions[i]
            dst == target_specs_dst(source)
        IN  /\ r.status = "ok" /\ r.permitted
            /\ has_target_specs_package /\ ~is_path(source)
            /\ companion_entries["sub"] = "dir"
            /\ r.before[dst] = Some(OldCopy)
            /\ r.after[dst].val["v1.json"] = "companion"
            /\ r.after[dst].val["sub"] = "absent"


\* C29: a resolution that is not permitted to write leaves every directory
\* and file as it was, and for a source that is no local path it returns
\* target-specs below the install directory, the directory a permitted
\* resolution returns.
C29_NothingWrittenWhenNotPermitted ==
    /\ \A i \in DOMAIN resolutions :
        LET r == resolutions[i]
        IN  ~r.permitted =>
                /\ r.after = r.before
                /\ (r.status = "ok" /\ ~is_path(source)) => r.dir = target_specs_dst(source)
    /\ \A i, j \in DOMAIN resolutions :
        (/\ ~resolutions[i].permitted /\ resolutions[j].permitted
         /\ resolutions[i].status = "ok" /\ resolutions[j].status = "ok"
         /\ ~is_path(source)) => resolutions[i].dir = resolutions[j].dir

\* Show resolved without writing, and a permitted resolution of the same
\* source wrote into the directory both returned
C29_Witness ==
    \E i, j \in DOMAIN resolutions :
        /\ resolutions[i].fn = "show" /\ resolutions[i].status = "ok"
        /\ resolutions[j].permitted /\ resolutions[j].status = "ok"
        /\ ~is_path(source)
        /\ resolutions[j].after # resolutions[j].before
        /\ resolutions[i].dir = resolutions[j].dir


\* the companion package is in the metadata, and no target-specs directory
\* exists next to its manifest
CompanionDirMissing == has_target_specs_package /\ ~target_specs_src_is_dir

\* C30: whenever the metadata contains the companion package and no
\* target-specs directory exists next to its manifest, a resolution fails
\* instead of returning a directory: with and without permission to write,
\* and for Install::run on a cache hit as on a cache miss.
C30_MissingCompanionDirFails ==
    \A i \in DOMAIN resolutions :
        CompanionDirMissing => resolutions[i].status = "err"


(***************************************************************************)
(* Install::run on a local checkout                                        *)
(***************************************************************************)
\* the directory d is the local checkout or lies below it
InCheckout(d) == Len(d) >= 1 /\ SubSeq(d, 1, 1) = install_dir("Path")

\* C31: for a source that is a local path no step of Install::run writes a
\* placeholder project, writes a target-spec directory below the checkout,
\* removes Cargo.lock or relocates an artifact, and the target directory of
\* the checkout changes only while the compiler build runs.
C31_LocalCheckoutUntouched ==
    [][is_path(source) =>
        /\ placeholder' = placeholder
        /\ install_lock' = install_lock
        /\ dest_dylib' = dest_dylib
        /\ dest_partial' = dest_partial
        /\ \A d \in spec_dirs' \ spec_dirs : ~InCheckout(d)
        /\ (<<target_dir, target_dylib, target_partial>>' #
                <<target_dir, target_dylib, target_partial>>) => ipc \in {"build", "building"}
      ]_vars

\* an installation from a local checkout succeeded: the backend was built
\* in the checkout and the legacy bundle went to the shared directory
C31_Witness ==
    /\ is_path(source)
    /\ target_dylib
    /\ LegacyShared \in spec_dirs
    /\ \E i \in DOMAIN runs : runs[i].status = "ok" /\ runs[i].builds = 1


(***************************************************************************)
(* The guard's release when a recorded Cargo.lock cannot be read           *)
(***************************************************************************)
InitRelease ==
    /\ InstallIdle
    /\ ToolIdle
    /\ SrcIdle
    /\ DirIdle
    /\ SpecIdle
    /\ GuardIdle
    /\ WalkIdle
    /\ ChanIdle
    /\ MemberWorkspaceStart
    /\ watch = FALSE

\* while the guard exists a Cargo.lock is removed by someone else, so that
\* std::fs::read_to_string fails when the guard reverts it
LockfileLost ==
    /\ pc \in {"guarded", "drop"}
    /\ \E f \in Files :
        /\ lock[f].exists
        /\ lock' = [lock EXCEPT ![f] = Absent]
    /\ UNCHANGED <<pc, inputs, cargo_lock_files_with_changed_manifest_versions, rewritten,
                   opened_for_write, result, error, exit_code, build_started>>
    /\ UNCHANGED <<installVars, schedVars, toolVars, srcVars, dirVars, specVars, guardVars,
                   chanVars, walkVars>>

ReleaseNext ==
    \/ Next
    \/ LockfileLost

SpecRelease == InitRelease /\ [][ReleaseNext]_vars

\* the revert of the recorded files fails in the current state
RevertFails ==
    revert_cargo_lock_manifest_versions(
        lock, cargo_lock_files_with_changed_manifest_versions).status = "err"

\* C32: the release of the guard always completes and leaves the result, the
\* error and the exit code of the guarded operation as they were; a failure
\* to restore is logged.
C32_RevertFailureSwallowed ==
    [][pc = "drop" /\ pc' # "drop" =>
        /\ pc' = "done"
        /\ result' = result
        /\ error' = error
        /\ exit_code' = exit_code
        /\ RevertFails =>
            logged' = Append(logged, [build |-> gcurrent, line |-> RevertErrorLine])
      ]_vars

\* a successful build whose guard could not restore a lockfile: the result
\* is still the build's, and the failure is in the log
C32_Witness ==
    /\ pc = "done"
    /\ result = "ok"
    /\ build_started
    /\ logged # <<>>


(***************************************************************************)
(* Install::run with the channel read from the backend's build script      *)
(***************************************************************************)
\* longest build script, in lines
MaxScriptLines == 2

NightlyA == <<"n", "-", "0", "1">>
NightlyB == <<"n", "-", "0", "2">>

\* lines of a build script: a channel line, one with text after the closing
\* quote, one without closing quote, and one that holds the prefix but does
\* not begin with it
ScriptLines ==
    {channel_start \o NightlyA \o <<"\"">>,
     channel_start \o NightlyB \o <<"\"", ",", "\"">>,
     channel_start \o NightlyB,
     <<" ">> \o channel_start \o NightlyB \o <<"\"">>}

BuildScripts == {None} \cup {Some(ls) : ls \in SeqsBetween(ScriptLines, 0, MaxScriptLines)}

InitInstallChannel ==
    /\ LockIdle
    /\ InstallStart
    /\ ToolIdle
    /\ SrcIdle
    /\ DirIdle
    /\ SpecIdle
    /\ GuardIdle
    /\ WalkIdle
    /\ clear_target
    /\ builds_dylib
    /\ ~has_target_specs_package
    /\ source # "Git"
    /\ build_rs \in BuildScripts

\* query_metadata, find_package, get_channel_from_rustc_codegen_spirv_build_script
ResolveChannelFromBuildScript ==
    /\ ipc = "resolve_channel"
    /\ UNCHANGED <<installInputs, rebuild_codegen, dest_dylib, target_dylib, target_dir,
                   placeholder, spec_dirs, skip_rebuild, target_spec_dir, builds_this_run,
                   build_status, dest_partial, target_partial>>
    /\ UNCHANGED <<lockVars, schedVars, toolVars, srcVars, dirVars, specVars, guardVars,
                   chanVars, walkVars>>
    /\ \E found \in BOOLEAN :
        LET channel == get_channel_from_rustc_codegen_spirv_build_script(build_rs)
        IN  IF found /\ channel.status = "ok"
            THEN /\ toolchain_channel' = channel.val
                 /\ install_lock' = (install_lock \/ ~is_path(source))
                 /\ steps' = Append(steps, "resolve_channel")
                 /\ ipc' = "update_spec_files"
                 /\ UNCHANGED runs
            ELSE /\ UNCHANGED <<toolchain_channel, install_lock, steps>>
                 /\ Finish("err", NoBackend)

InstallChannelNext ==
    \/ InstallBegin
    \/ WriteSourceFiles
    \/ ResolveChannelFromBuildScript
    \/ UpdateSpecFiles
    \/ EnsureToolchain
    \/ RemoveCargoLock
    \/ CompilerBuild
    \/ BuildExit
    \/ CheckDylib
    \/ Relocate
    \/ ClearTarget
    \/ InstallReturn

SpecInstallChannel == InitInstallChannel /\ [][InstallChannelNext]_vars

\* line begins with the prefix, and text is what stands between the quote
\* that ends the prefix and the next quote
ChannelLine(line, text) ==
    /\ starts_with(line, channel_start \o text \o <<"\"">>)
    /\ \A k \in DOMAIN text : text[k] # "\""

\* text is the channel of the first line of the build script that begins
\* with the prefix
ChannelOfScript(text) ==
    /\ build_rs.some
    /\ \E i \in DOMAIN build_rs.val :
        /\ ChannelLine(build_rs.val[i], text)
        /\ \A j \in 1..(i - 1) : ~starts_with(build_rs.val[j], channel_start)

\* no line of the build script begins with the prefix
NoChannelLine ==
    build_rs.some /\ \A i \in DOMAIN build_rs.val : ~starts_with(build_rs.val[i], channel_start)

\* the positions of Install::run at which the channel is in use
UsesChannel ==
    {"update_spec_files", "ensure_toolchain", "remove_cargo_lock", "build", "building",
     "check_dylib", "relocate", "clear_target", "return"}

\* C33: the channel Install::run provisions, builds with and returns is the
\* text between the quotes of the first line of the build script that
\* begins with the prefix; without such a line every invocation fails
\* before provisioning, the removal of Cargo.lock and the compiler build.
C33_ChannelFromBuildScript ==
    /\ ipc \in UsesChannel => ChannelOfScript(toolchain_channel)
    /\ \A i \in DOMAIN runs :
        runs[i].status = "ok" => ChannelOfScript(runs[i].backend.toolchain_channel)
    /\ NoChannelLine =>
        /\ ipc \notin UsesChannel
        /\ \A i \in DOMAIN runs :
            /\ runs[i].status = "err"
            /\ runs[i].builds = 0
            /\ \A k \in DOMAIN runs[i].steps :
                runs[i].steps[k] \notin {"ensure_toolchain", "remove_cargo_lock", "build"}

\* a build script with two channel lines: the backend was built and
\* returned with the channel of the first
C33_Witness ==
    /\ build_rs = Some(<<channel_start \o NightlyA \o <<"\"">>,
                         channel_start \o NightlyB \o <<"\"", ",", "\"">>>>)
    /\ \E i \in DOMAIN runs :
        /\ runs[i].status = "ok"
        /\ runs[i].builds = 1
        /\ runs[i].backend.toolchain_channel = NightlyA


\* the file the revert makes of f: every line "version = 3" that str::replace
\* matches reads "version = 4"
Reverted(f) == replace_cargo_lock_manifest_version(f, "3", "4").file

\* C34: when the guard is released, every recorded Cargo.lock that can be
\* read is rewritten from version 3 to version 4, whether or not the
\* restoration of another recorded file failed.
C34_EveryRecordedFileRestored ==
    [][pc = "drop" /\ pc' = "done" =>
        \A f \in Range(cargo_lock_files_with_changed_manifest_versions) :
            lock[f].exists => lock'[f] = Reverted(lock[f])
      ]_vars


(***************************************************************************)
(* get_workspace_root on the path as Build::run passes it: the value of    *)
(* --shader-crate (default "./"), not yet canonicalized.  Directories lie  *)
(* on one chain below the filesystem root and are named by their depth;    *)
(* a path is absolute or relative to the working directory, and its        *)
(* components are "." (CurDir) or "x" (a directory name).                  *)
(***************************************************************************)
\* deepest shader crate directory
MaxDepth == 17

Names(comps) == Cardinality({i \in DOMAIN comps : comps[i] = "x"})

\* the directory a path names
Location(path) == (IF path.abs THEN 0 ELSE current_dir) + Names(path.comps)

\* Path::parent: the path without its last component; None for the root and
\* for the empty path
path_parent(path) ==
    IF path.comps = <<>> THEN None
    ELSE Some([abs |-> path.abs, comps |-> SubSeq(path.comps, 1, Len(path.comps) - 1)])

\* parent_path.join("Cargo.lock").exists()
HasCargoLock(path) == Location(path) \in cargo_locks

\* the loop of get_workspace_root (for _ in 0..15), with left iterations to go
RECURSIVE WalkFrom(_, _, _)
WalkFrom(current_path, left, inspected) ==
    IF left = 0 THEN [found |-> None, inspected |-> inspected]
    ELSE LET parent_path == path_parent(current_path)
         IN  IF ~parent_path.some THEN [found |-> None, inspected |-> inspected]
             ELSE IF HasCargoLock(parent_path.val)
             THEN [found |-> parent_path, inspected |-> inspected + 1]
             ELSE WalkFrom(parent_path.val, left - 1, inspected + 1)

\* fn get_workspace_root(shader_crate_path), for the text of Cargo.toml
get_workspace_root_from(toml, path, limit) ==
    IF toml = "unreadable" THEN Err("reading Cargo.toml")
    ELSE IF toml # "member" THEN Ok([found |-> None, inspected |-> 0])
    ELSE Ok(WalkFrom(path, limit, 0))

\* n components "x"
Xs(n) == [i \in 1..n |-> "x"]

\* the ways to name the directory at depth d from the working directory at
\* depth c: absolute, relative, relative with a leading "."
PathsTo(c, d) ==
    {[abs |-> TRUE, comps |-> Xs(d)], [abs |-> FALSE, comps |-> <<".">> \o Xs(d - c)]}
    \cup (IF d > c THEN {[abs |-> FALSE, comps |-> Xs(d - c)]} ELSE {})

InitWalk ==
    /\ InstallIdle
    /\ ToolIdle
    /\ SrcIdle
    /\ DirIdle
    /\ SpecIdle
    /\ GuardIdle
    /\ ChanIdle
    /\ pc = "start"
    /\ lock = [f \in Files |-> Absent]
    /\ orig = lock
    /\ workspace_rust_version = RUST_VERSION_THAT_USES_V4_CARGO_LOCKS
    /\ shader_rust_version = RUST_VERSION_THAT_USES_V4_CARGO_LOCKS
    /\ force_overwrite_lockfiles_v4_to_v3 = FALSE
    /\ cargo_toml \in {"unreadable", "standalone", "member"}
    /\ ancestors = 0
    /\ lock_level = 0
    /\ cargo_lock_files_with_changed_manifest_versions = <<>>
    /\ rewritten = {}
    /\ opened_for_write = [f \in Files |-> 0]
    /\ result = "none"
    /\ error = ""
    /\ exit_code = -1
    /\ build_started = FALSE
    /\ watch = FALSE
    /\ \E d \in {1, 2, WalkLimit, WalkLimit + 1, MaxDepth} :
        /\ current_dir \in {c \in {0, d - 1, d} : c >= 0}
        /\ shader_crate_path \in PathsTo(current_dir, d)
        /\ cargo_locks \in
              {ls \in SUBSET {l \in {0, d - WalkLimit - 1, d - WalkLimit, d - 1, d} : l >= 0} :
                  Cardinality(ls) <= 2}
    /\ walked = None

\* Self::get_workspace_root(shader_crate_path)
GetWorkspaceRoot ==
    /\ walked = None
    /\ walked' = Some(get_workspace_root_from(cargo_toml, shader_crate_path, WalkLimit))
    /\ UNCHANGED <<shader_crate_path, current_dir, cargo_locks>>
    /\ UNCHANGED <<lockVars, installVars, schedVars, toolVars, srcVars, dirVars, specVars,
                   guardVars, chanVars>>

SpecWalk == InitWalk /\ [][GetWorkspaceRoot]_vars

\* the strict ancestors of the shader crate directory that hold a Cargo.lock
\* and are at most WalkLimit levels above it
AncestorsWithLock ==
    {a \in cargo_locks : a < Location(shader_crate_path)
                         /\ Location(shader_crate_path) - a <= WalkLimit}

\* C35: the search inspects at most 15 directories; it returns no workspace
\* when Cargo.toml does not contain `workspace = true`, otherwise the nearest
\* strict ancestor of the shader crate directory that holds a Cargo.lock, or
\* none if there is none within the bound; never the shader crate directory.
C35_WorkspaceRootSearch ==
    (walked.some /\ walked.val.status = "ok") =>
        LET r == walked.val.val
        IN  /\ r.inspected <= WalkLimit
            /\ cargo_toml # "member" => ~r.found.some
            /\ cargo_toml = "member" =>
                IF AncestorsWithLock = {} THEN ~r.found.some
                ELSE /\ r.found.some
                     /\ Location(r.found.val) \in AncestorsWithLock
                     /\ \A a \in AncestorsWithLock : a <= Location(r.found.val)
            /\ r.found.some => Location(r.found.val) # Location(shader_crate_path)


\* C36: when LockfileMismatchHandler::new has returned an error, no
\* Cargo.lock that was at version 4 is left rewritten: what a check of the
\* failed construction downgraded is at version 4 again.
C36_FailedConstructionRestores ==
    pc = "failed" => \A f \in Files : MarkerIs(orig[f], LineV4) => MarkerIs(lock[f], LineV4)


\* the positions of Install::run from the placeholder to the test for the
\* built artifact: everything before the artifact is relocated
BeforeRelocation ==
    {"write_source_files", "resolve_channel", "update_spec_files", "ensure_toolchain",
     "remove_cargo_lock", "build", "building", "check_dylib"}

\* C37: no step of Install::run before the relocation of the new artifact,
\* failing or not, touches the artifact at the destination path; and an
\* invocation without the force flag that finds the artifact of a source
\* that is no local path is a cache hit.  So an installed artifact outlives
\* a forced rebuild that fails at one of these steps, and serves the next
\* invocation.
C37_FailedRebuildKeepsArtifact ==
    [][/\ ipc \in BeforeRelocation =>
            dest_dylib' = dest_dylib /\ dest_partial' = dest_partial
       /\ (ipc = "idle" /\ ipc' # "idle" /\ ~rebuild_codegen' /\ dest_dylib /\ ~is_path(source))
            => skip_rebuild'
      ]_vars

\* a forced rebuild of an installed backend failed in the compiler build,
\* and the next invocation, without the flag, was a cache hit and succeeded
C37_Witness ==
    /\ Len(runs) = 2
    /\ runs[1].rebuild_codegen /\ runs[1].status = "err"
    /\ runs[1].failed_at = "building" /\ runs[1].builds = 1
    /\ ~runs[2].rebuild_codegen /\ runs[2].skip_rebuild /\ runs[2].status = "ok"

(***************************************************************************)
(* Git sources whose revs share a prefix                                   *)
(***************************************************************************)
\* Git sources with one url and revs that agree on their first 8 characters,
\* in one-byte and in two-byte characters, and a registry source
SharedPrefixSources ==
    {Git(<<"u", "/", "v">>, LongRev), Git(<<"u", "/", "v">>, [LongRev EXCEPT ![MaxRev] = "c"]),
     Git(<<"u">>, <<"1", "2", "3", "4", "5", "6", "7", "é", "9">>),
     Git(<<"u">>, <<"1", "2", "3", "4", "5", "6", "7", "é", "a">>),
     CratesIO(<<0, 9, 0>>)}

\* Install::run for a source, up to the decision to skip the rebuild, and the
\* installation that follows a miss: dest_dylib_path is a child of the
\* install directory, so the probe finds what any earlier run left there
InstallRunInDir ==
    /\ Len(calls) < MaxCalls
    /\ \E src \in SharedPrefixSources, rebuild \in BOOLEAN, succeeds \in BOOLEAN :
        LET dir == SpirvSource_install_dir(src, home, cfg_test, thread)
            hit == /\ dir.status = "ok"
                   /\ skip_rebuild_decision(src.kind, dir.val \in artifacts, rebuild)
            installs == dir.status = "ok" /\ ~hit /\ succeeds /\ ~is_path(src.kind)
        IN  /\ calls' = Append(calls, [source |-> src, thread |-> thread,
                                       installed |-> dest_dylib, result |-> dir,
                                       run |-> TRUE, rebuild_codegen |-> rebuild,
                                       skip_rebuild |-> hit, built |-> installs])
            /\ artifacts' = IF installs THEN artifacts \cup {dir.val} ELSE artifacts
    /\ UNCHANGED <<home, cfg_test, thread>>
    /\ UNCHANGED <<lockVars, installVars, schedVars, toolVars, srcVars, specVars, guardVars,
                   chanVars, walkVars>>

InitSharedPrefix ==
    /\ LockIdle
    /\ InstallIdle
    /\ ToolIdle
    /\ SrcIdle
    /\ SpecIdle
    /\ GuardIdle
    /\ WalkIdle
    /\ ChanIdle
    /\ home = Some(<<"home", "user", ".cache">>)
    /\ cfg_test \in BOOLEAN
    /\ thread \in Threads
    /\ calls = <<>>
    /\ artifacts = {}

SharedPrefixNext ==
    \/ InstallRunInDir
    \/ ThreadSwitch

SpecSharedPrefix == InitSharedPrefix /\ [][SharedPrefixNext]_vars

\* the first n characters of a text
FirstChars(text, n) == SubSeq(text, 1, IF Len(text) < n THEN Len(text) ELSE n)

\* two Git sources with one url whose revs agree on their first 8 characters
RevsAgree(a, b) ==
    /\ a.kind = "Git" /\ b.kind = "Git"
    /\ a.url = b.url
    /\ FirstChars(a.rev, 8) = FirstChars(b.rev, 8)

\* two calls that share one cache root
SameCacheRoot(i, j) == cfg_test => calls[i].thread = calls[j].thread

\* C38: two Git sources with the same url whose revs agree on their first 8
\* characters map to the same install directory, and a run for the second
\* one, after a run for the first one installed its artifact there, is a
\* cache hit unless a rebuild is forced.
C38_RevCutToEightCharacters ==
    \A i, j \in DOMAIN calls :
        (i < j /\ RevsAgree(calls[i].source, calls[j].source) /\ SameCacheRoot(i, j)) =>
            /\ calls[i].result = calls[j].result
            /\ (calls[i].built /\ calls[j].run /\ ~calls[j].rebuild_codegen)
                    => calls[j].skip_rebuild

(***************************************************************************)
(* a url override without a version override                               *)
(***************************************************************************)
UrlOverrideAlone == maybe_rust_gpu_source.some /\ ~maybe_rust_gpu_version.some

\* C39: with a url override and no version override SpirvSource::new ignores
\* the url; its result, a source or an error, is the one obtained by
\* inspecting the project's dependency metadata, as with no override at all.
C39_UrlAloneIgnored ==
    (resolution.some /\ UrlOverrideAlone) =>
        /\ resolution.val.inspected
        /\ resolution.val.result = get_rust_gpu_deps_from_shader(metadata, root_is_dir)
        /\ resolution.val = SpirvSource_new(None, None, metadata, root_is_dir)

\* a url was given alone and the project's own source, which does not name
\* that url, was resolved
C39_Witness ==
    /\ resolution.some
    /\ UrlOverrideAlone
    /\ resolution.val.result.status = "ok"
    /\ resolution.val.result.val.kind = "Git" => resolution.val.result.val.url # maybe_rust_gpu_source.val
    /\ resolution.val.result.val.kind # "Path"

(***************************************************************************)
(* Two builds, two guards, one workspace Cargo.lock                        *)
(***************************************************************************)
\* the variables of Build::run and of its guard that belong to one process
GuardLocals ==
    [pc |-> pc,
     cargo_lock_files_with_changed_manifest_versions |->
        cargo_lock_files_with_changed_manifest_versions,
     rewritten |-> rewritten, result |-> result, error |-> error, exit_code |-> exit_code,
     build_started |-> build_started]

\* the other cargo-gpu process runs next; the files are shared, the guard
\* and the position in Build::run are not
GuardSwitch ==
    /\ gother.pc \notin {"done", "failed", "exited"}
    /\ gother' = GuardLocals
    /\ gcurrent' = 3 - gcurrent
    /\ pc' = gother.pc
    /\ cargo_lock_files_with_changed_manifest_versions' =
          gother.cargo_lock_files_with_changed_manifest_versions
    /\ rewritten' = gother.rewritten
    /\ result' = gother.result
    /\ error' = gother.error
    /\ exit_code' = gother.exit_code
    /\ build_started' = gother.build_started
    /\ UNCHANGED <<lock, inputs, opened_for_write, logged>>
    /\ UNCHANGED <<installVars, schedVars, toolVars, srcVars, dirVars, specVars, chanVars,
                   walkVars>>

\* two builds of a shader crate that is a member of a workspace
InitTwoGuards ==
    /\ InstallIdle
    /\ ToolIdle
    /\ SrcIdle
    /\ DirIdle
    /\ SpecIdle
    /\ GuardIdle
    /\ WalkIdle
    /\ ChanIdle
    /\ MemberWorkspaceStart
    /\ watch = FALSE

TwoGuardsNext ==
    \/ Next
    \/ GuardSwitch

SpecTwoGuards == InitTwoGuards /\ [][TwoGuardsNext]_vars

\* the guard of a build exists: constructed and not yet released
GuardHeld(p) == p \in {"guarded", "drop"}

\* every file of the set is at version 3
AllAtV3(files) == \A f \in files : MarkerIs(lock[f], LineV3)

\* C40: while a build holds its guard, every Cargo.lock the construction of
\* that guard downgraded is at version 3, whatever a second build sharing the
\* workspace Cargo.lock does with its own guard; and once both builds have
\* released their guards the shared file, originally at version 4, is at
\* version 4 again.
C40_ConcurrentGuardsKeepV3 ==
    /\ GuardHeld(pc) => AllAtV3(rewritten)
    /\ GuardHeld(gother.pc) => AllAtV3(gother.rewritten)
    /\ (pc = "done" /\ gother.pc = "done" /\ MarkerIs(orig["workspace"], LineV4))
            => MarkerIs(lock["workspace"], LineV4)


=============================================================================
